---- MODULE Spec2Model ----
(***************************************************************************)
(* The ingestion-filter-manifest pipeline of 02-standardisation:           *)
(* the driver (pipeline/pipeline.py), the worker pool                      *)
(* (pipeline/workers.py, src/workers.py), the manifest store               *)
(* (src/allowlist.py, src/core/allowlist.py), the checkpoint store         *)
(* (src/checkpoint.py), the dedup store (filters/deduplication.py) and the *)
(* shard sink (pipeline/webdataset.py).                                    *)
(*                                                                         *)
(* Durable state (the three sqlite files and the shard files) survives a   *)
(* crash of the process; everything else is lost with it.                  *)
(***************************************************************************)
EXTENDS Integers, Sequences, FiniteSets, TLC

(***************************************************************************)
(* Bounds of the model.                                                    *)
(***************************************************************************)
\* longest stream of the first adapter
MaxSamples == 3
\* number of times Pipeline.scan is started (first run and reruns after a
\* crash or after completion)
MaxRuns == 2
\* longest entries list of one add_batch call in the store-level model
MaxEntries == 3
\* number of add_batch calls in the store-level model
MaxCalls == 2
\* sqlite3.OperationalError faults injected into the dedup store
MaxStoreErrors == 1
\* undecodable payloads in one batch of the pool-level model
MaxUndecodable == 1
\* longest stream and number of stream calls in the adapter-level model
MaxStream == 12
MaxAdapterCalls == 2
\* worker processes of the pool in the initialisation-level model
NumWorkers == 2
\* number of calls in the store-level model of Checkpoint
MaxCheckpointCalls == 5
\* number of calls and longest batch in the sink-level model
MaxSinkCalls == 3
MaxSinkBatch == 3
\* number of samples written in the sink-level model
MaxSinkSamples == 5
\* WebDatasetSink.samples_per_shard and target_shard_bytes of the configured sink
SamplesPerShard == 2
TargetShardBytes == 5

Datasets == {1, 2}
BatchSizes == {1, 2}
Hashes == {1, 2}
\* sample_id stands for "no row / None"
None == 0 - 1

\* longest stream of adapter d: the first adapter is long enough for a full
\* batch followed by a tail, the later ones carry one sample
StreamBound(d) == IF d = 1 THEN MaxSamples ELSE 1

(***************************************************************************)
(* Samples.  cls is the Python class of the sample (pipeline/schema.py);   *)
(* size is what the resolution filter sees ("ok", "small", or "raise" when *)
(* reading the image makes the filter raise); hash is the perceptual hash  *)
(* ImageDeduplication.compute_hash gives the image (0: no image).          *)
(***************************************************************************)
Kinds ==
    { [cls |-> "ImageSample", size |-> "ok",    hash |-> 1],
      [cls |-> "ImageSample", size |-> "ok",    hash |-> 2],
      [cls |-> "ImageSample", size |-> "small", hash |-> 1],
      [cls |-> "ImageSample", size |-> "raise", hash |-> 1],
      [cls |-> "TextSample",  size |-> "none",  hash |-> 0] }

\* The sample an adapter emits at 0-based position i of its stream: the
\* adapter numbers its samples with enumerate().
Sample(d, i, k) ==
    [dataset_id |-> d, sample_id |-> i, cls |-> k.cls, size |-> k.size, hash |-> k.hash]

\* The filter chains a run can be configured with.
Chains == { <<"MinResolution">>, <<"MinResolution", "ImageDeduplication">> }

VARIABLES
    \* ---- configuration of a run (fixed over reruns)
    datasets,       \* datasets[d]: the kinds of the samples adapter d emits, in order
    batch_size,     \* Pipeline.batch_size
    filters,        \* the filter chain of every worker
    sink_on,        \* whether Pipeline.sink is configured
    gen,            \* which _process_sample runs: "pipeline" or "src"
    \* ---- durable state
    allowlist,      \* manifest.db: rows of table allowlist, in insertion order
    progress,       \* checkpoint.db: progress[d] = row of dataset d
    seen_hashes,    \* dedup.db: rows of table seen_hashes
    shards,         \* the shard files: shards[n+1] = samples of NNNNNN.tar
    \* ---- the driver (lost in a crash)
    pc,             \* where Pipeline.scan stands
    ds,             \* the dataset being scanned
    it,             \* the iterator dataset.stream(skip): the samples still to yield
    batch,          \* the batch buffer
    tail,           \* the stream is exhausted (flush of the remaining samples)
    pending,        \* positions of the batch not yet processed by a worker
    finished,       \* (position, verdict) in the order workers finished
    results,        \* what pool.process_batch returned
    sink,           \* in-memory fields of WebDatasetSink
    \* ---- history (not program state)
    runs,           \* number of scans started
    log,            \* the store and sink calls of the current run, in order
    last_call,      \* the last check_and_insert call: arguments, store before, result
    accepted,       \* accepted[h]: samples the dedup filter accepted for hash h
    tried,          \* tried[h]: a check_and_insert of hash h returned without a store error
    verdict,        \* verdict[<<d, i>>]: the last verdict of the sample ("none" before)
    store_errors,   \* sqlite3.OperationalError faults the dedup store may still raise
    \* ---- the store-level model of AllowlistDB.add_batch
    impl,           \* "src" (src/allowlist.py) or "core" (src/core/allowlist.py)
    call,           \* the add_batch call in progress
    hist,           \* what the calls made so far: pairs of the returned calls, failures
    \* ---- observations (not program state)
    last_eval,      \* the _process_sample call that returned last in the batch in progress
    at_start,       \* the durable state when the current run started
    ckpt,           \* the last call made to the checkpoint store, with the table before it
    sink_calls,     \* number of calls made to the sink in the sink-level model
    codec,          \* the codec-level model: a sample, its payload, the decoded sample
    wpool,          \* the WorkerPool: whether it is open, what each initializer left
    fcall           \* the filter-level model: a filter, a sample, what the call returned

cfgvars == <<datasets, batch_size, filters, sink_on, gen>>
durable == <<allowlist, progress, seen_hashes, shards>>
driver  == <<pc, ds, it, batch, tail, pending, finished, results, sink>>
history == <<runs, log, last_call, accepted, tried, verdict, store_errors>>
store   == <<impl, call, hist>>
observed == <<last_eval, at_start, ckpt, sink_calls, codec, wpool, fcall>>
vars    == <<cfgvars, durable, driver, history, store, observed>>

Range(s) == { s[k] : k \in DOMAIN s }

(***************************************************************************)
(* Manifest store: AllowlistDB (src/allowlist.py, src/core/allowlist.py).  *)
(* The table is kept as the sequence of its rows in insertion order.       *)
(***************************************************************************)

\* "INSERT OR IGNORE INTO allowlist ... VALUES (?, ?)" for one entry: the
\* primary key (dataset_id, sample_id) makes the statement skip a row that
\* is already there.
insert_or_ignore(rows, e) ==
    IF e \in Range(rows) THEN rows ELSE Append(rows, e)

\* "INSERT INTO allowlist ... VALUES (?, ?)" of src/core/allowlist.py for one
\* entry: a row that is already there violates the primary key and the
\* statement raises sqlite3.IntegrityError
insert(rows, e) ==
    IF e \in Range(rows) THEN [ok |-> FALSE, rows |-> rows]
    ELSE [ok |-> TRUE, rows |-> Append(rows, e)]

RECURSIVE executemany(_, _)
\* conn.executemany(INSERT OR IGNORE ..., entries): one statement per entry
executemany(rows, entries) ==
    IF entries = <<>> THEN rows
    ELSE executemany(insert_or_ignore(rows, Head(entries)), Tail(entries))

\* AllowlistDB.add_batch: all statements run in one transaction ("with
\* self.conn"), which is committed when the block ends.
add_batch(rows, entries) == executemany(rows, entries)

\* a connection in autocommit mode (isolation_level=None): every statement
\* is durable as soon as it ran
autocommit(rows, txn) == rows \o txn

\* The durable table while a transaction is open: python's sqlite3 opens a
\* transaction before the first INSERT, so nothing of txn is durable.
in_transaction(rows, txn) == rows

\* The durable table after the transaction committed.
commit(rows, txn) == rows \o txn

(***************************************************************************)
(* Checkpoint store: Checkpoint (src/checkpoint.py), table progress.       *)
(***************************************************************************)
NoRow == [exists |-> FALSE, last_sample_id |-> None, completed |-> FALSE]

\* "INSERT OR REPLACE INTO progress VALUES (?, ?, 0)": the row is written anew
replace_row(prog, d, last) ==
    [prog EXCEPT ![d] = [exists |-> TRUE, last_sample_id |-> last, completed |-> FALSE]]

\* INSERT ... VALUES (?, ?, 0) ON CONFLICT(dataset_id) DO UPDATE SET last_sample_id = ?
update(prog, d, last) ==
    [prog EXCEPT ![d] =
        IF @.exists THEN [@ EXCEPT !.last_sample_id = last]
        ELSE [exists |-> TRUE, last_sample_id |-> last, completed |-> FALSE]]

\* UPDATE progress SET completed = 1 WHERE dataset_id = ?
mark_complete(prog, d) ==
    [prog EXCEPT ![d] = IF @.exists THEN [@ EXCEPT !.completed = TRUE] ELSE @]

\* the row exists and its completed column is set
is_complete(prog, d) == prog[d].exists /\ prog[d].completed

\* last_sample_id of the row, None when the dataset has no row
get_last_sample_id(prog, d) ==
    IF prog[d].exists THEN prog[d].last_sample_id ELSE None

(***************************************************************************)
(* Dedup store: HashStore (filters/deduplication.py), table seen_hashes.   *)
(***************************************************************************)
HashRow(h, d, s) == [img_hash |-> h, dataset_id |-> d, sample_id |-> s]

\* rows of the table with primary key h
rows_of(tbl, h) == { r \in tbl : r.img_hash = h }

\* "INSERT OR REPLACE": the row of a present hash is replaced and counted
insert_or_replace(tbl, h, d, s, err) ==
    IF err THEN [tbl |-> tbl, ret |-> FALSE]
    ELSE [tbl |-> (tbl \ rows_of(tbl, h)) \cup {HashRow(h, d, s)}, ret |-> TRUE]

\* INSERT OR IGNORE with "rowcount >= 0": true whether or not a row was added
rowcount_any(tbl, h, d, s, err) ==
    IF err THEN [tbl |-> tbl, ret |-> FALSE]
    ELSE IF rows_of(tbl, h) # {} THEN [tbl |-> tbl, ret |-> TRUE]
    ELSE [tbl |-> tbl \cup {HashRow(h, d, s)}, ret |-> TRUE]

\* a table without the primary key on img_hash: every call adds its row
insert_without_key(tbl, h, d, s, err) ==
    IF err THEN [tbl |-> tbl, ret |-> FALSE]
    ELSE [tbl |-> tbl \cup {HashRow(h, d, s)}, ret |-> TRUE]

\* a check_and_insert that answers True when the store raised
operational_error_accepts(tbl, h, d, s, err) ==
    IF err THEN [tbl |-> tbl, ret |-> TRUE]
    ELSE IF rows_of(tbl, h) # {} THEN [tbl |-> tbl, ret |-> FALSE]
    ELSE [tbl |-> tbl \cup {HashRow(h, d, s)}, ret |-> TRUE]

\* HashStore.check_and_insert: INSERT OR IGNORE and "rowcount > 0"; a
\* sqlite3.OperationalError (err) is caught and gives False.
check_and_insert(tbl, h, d, s, err) ==
    IF err THEN [tbl |-> tbl, ret |-> FALSE]
    ELSE IF rows_of(tbl, h) # {} THEN [tbl |-> tbl, ret |-> FALSE]
    ELSE [tbl |-> tbl \cup {HashRow(h, d, s)}, ret |-> TRUE]

(***************************************************************************)
(* Sample codec (pipeline/schema.py): the payload crossing the worker      *)
(* boundary is a SerializedSample tagged with sample_type.                 *)
(***************************************************************************)
serialize(sample) ==
    [sample_type |-> CASE sample.cls = "TextSample" -> "text"
                       [] sample.cls = "ImageSample" -> "image"
                       [] sample.cls = "ImageTextSample" -> "image_text",
     dataset_id |-> sample.dataset_id,
     sample_id |-> sample.sample_id,
     size |-> sample.size,
     hash |-> sample.hash]

\* Sample.deserialize / SerializedSample.to_sample
deserialize(data) ==
    [dataset_id |-> data.dataset_id,
     sample_id |-> data.sample_id,
     cls |-> CASE data.sample_type = "text" -> "TextSample"
               [] data.sample_type = "image" -> "ImageSample"
               [] data.sample_type = "image_text" -> "ImageTextSample",
     size |-> data.size,
     hash |-> data.hash]

(***************************************************************************)
(* Filters (filters/resolution.py, filters/deduplication.py).  A filter    *)
(* call gives "true", "false" or "raise" and the dedup table it leaves.    *)
(***************************************************************************)
\* ResolutionFilter.__call__
MinResolution(sample) ==
    IF sample.cls # "ImageSample" THEN "true"
    ELSE IF sample.size = "raise" THEN "raise"
    ELSE IF sample.size = "small" THEN "false"
    ELSE "true"

\* ImageDeduplication.__call__
ImageDeduplication(sample, tbl, err) ==
    IF sample.cls # "ImageSample" THEN [out |-> "true", tbl |-> tbl]
    ELSE LET r == check_and_insert(tbl, sample.hash, sample.dataset_id,
                                   sample.sample_id, err)
         IN [out |-> IF r.ret THEN "true" ELSE "false", tbl |-> r.tbl]

apply_filter(f, sample, tbl, err) ==
    IF f = "MinResolution" THEN [out |-> MinResolution(sample), tbl |-> tbl]
    ELSE ImageDeduplication(sample, tbl, err)

RECURSIVE all_filters_eager(_, _, _, _)
\* all([f(sample) for f in _worker_filters]): every filter is called before
\* the verdict is taken
all_filters_eager(fs, sample, tbl, err) ==
    IF fs = <<>> THEN [out |-> "true", tbl |-> tbl, invoked |-> <<>>]
    ELSE LET r == apply_filter(Head(fs), sample, tbl, err)
             this == [f |-> Head(fs), out |-> r.out]
         IN IF r.out = "raise"
            THEN [out |-> r.out, tbl |-> r.tbl, invoked |-> <<this>>]
            ELSE LET rest == all_filters_eager(Tail(fs), sample, r.tbl, err)
                 IN [out |-> IF r.out = "true" THEN rest.out ELSE r.out,
                     tbl |-> rest.tbl,
                     invoked |-> <<this>> \o rest.invoked]

RECURSIVE all_filters(_, _, _, _)
\* all(f(sample) for f in _worker_filters): in declared order, stopping at
\* the first filter that does not return True (or raises)
\* (invoked: the filters that were called, with what each returned)
all_filters(fs, sample, tbl, err) ==
    IF fs = <<>> THEN [out |-> "true", tbl |-> tbl, invoked |-> <<>>]
    ELSE LET r == apply_filter(Head(fs), sample, tbl, err)
             this == [f |-> Head(fs), out |-> r.out]
         IN IF r.out = "true"
            THEN LET rest == all_filters(Tail(fs), sample, r.tbl, err)
                 IN [rest EXCEPT !.invoked = <<this>> \o @]
            ELSE [out |-> r.out, tbl |-> r.tbl, invoked |-> <<this>>]

\* whether the chain calls check_and_insert for the sample
RECURSIVE reaches_dedup(_, _)
reaches_dedup(fs, sample) ==
    IF fs = <<>> THEN FALSE
    ELSE IF Head(fs) = "ImageDeduplication" THEN sample.cls = "ImageSample"
    ELSE MinResolution(sample) = "true" /\ reaches_dedup(Tail(fs), sample)

(***************************************************************************)
(* Worker pool (pipeline/workers.py, src/workers.py).                      *)
(***************************************************************************)
FilterResult(d, s, p) == [dataset_id |-> d, sample_id |-> s, passed |-> p]

\* a handler that lets the sample through when a filter raised
process_sample_error_passes(data, fs, tbl, err) ==
    LET sample == deserialize(data)
        r == all_filters(fs, sample, tbl, err)
    IN [res |-> FilterResult(sample.dataset_id, sample.sample_id, r.out # "false"),
        tbl |-> r.tbl, invoked |-> r.invoked]

\* _process_sample of pipeline/workers.py: an exception of a filter gives a
\* failed verdict carrying the identifiers of the sample
process_sample(data, fs, tbl, err) ==
    LET sample == deserialize(data)
        r == all_filters(fs, sample, tbl, err)
    IN [res |-> FilterResult(sample.dataset_id, sample.sample_id, r.out = "true"),
        tbl |-> r.tbl, invoked |-> r.invoked]

\* _process_sample of src/workers.py: an exception gives
\* FilterResult(dataset_id="", sample_id="", passed=False)
process_sample_src(data, fs, tbl, err) ==
    LET sample == deserialize(data)
        r == all_filters(fs, sample, tbl, err)
    IN [res |-> IF r.out = "raise" THEN FilterResult(0, None, FALSE)
                ELSE FilterResult(sample.dataset_id, sample.sample_id, r.out = "true"),
        tbl |-> r.tbl, invoked |-> r.invoked]

\* list(pool.imap_unordered(_process_sample, serialized)): the results in the
\* order in which the workers finished
imap_unordered(fin, n) ==
    [k \in 1..n |-> fin[k].res]

\* list(pool.map(_process_sample, serialized)): the result of the k-th input
\* at place k, whatever the order in which the workers finished
pool_map(fin, n) ==
    [k \in 1..n |-> (CHOOSE e \in Range(fin) : e.idx = k).res]

(***************************************************************************)
(* Shard sink: WebDatasetSink (pipeline/webdataset.py).  st is the pair of *)
(* the in-memory fields (sink) and the shard files (shards).               *)
(***************************************************************************)
NewSink == [tar_open |-> FALSE, shard_idx |-> 0, shard_sample_count |-> 0,
            shard_bytes |-> 0]

\* bytes _write_sample adds: the .json entry, the image entry, the .txt entry
SampleBytes(sample) ==
    1 + (IF sample.cls \in {"ImageSample", "ImageTextSample"} THEN 2 ELSE 0)
      + (IF sample.cls \in {"TextSample", "ImageTextSample"} THEN 1 ELSE 0)

\* block size of the tar format, in the unit of SampleBytes (512 bytes in a
\* tar file)
TarBlock == 4

\* payload lengths of the members _write_sample adds for a sample of class
\* cls: the .json entry, the image entry, the .txt entry
Members(cls) ==
    <<1>> \o (IF cls \in {"ImageSample", "ImageTextSample"} THEN <<2>> ELSE <<>>)
          \o (IF cls \in {"TextSample", "ImageTextSample"} THEN <<1>> ELSE <<>>)

\* bytes tarfile.addfile writes for a member with n bytes of data: the header
\* block, then the data padded to whole blocks
tar_member(n) == TarBlock + ((n + TarBlock - 1) \div TarBlock) * TarBlock

RECURSIVE payload_bytes(_)
\* sum of len(data) over the members: what _add_bytes adds to _shard_bytes
payload_bytes(ms) ==
    IF ms = <<>> THEN 0 ELSE Head(ms) + payload_bytes(Tail(ms))

RECURSIVE file_bytes(_)
\* bytes the members take in the shard file
file_bytes(ms) ==
    IF ms = <<>> THEN 0 ELSE tar_member(Head(ms)) + file_bytes(Tail(ms))

\* _ensure_shard_open: tarfile.open(path, "w") creates or truncates NNNNNN.tar
ensure_shard_open(st) ==
    IF st.sink.tar_open THEN st
    ELSE [sink |-> [st.sink EXCEPT !.tar_open = TRUE],
          shards |-> IF st.sink.shard_idx + 1 <= Len(st.shards)
                     THEN [st.shards EXCEPT ![st.sink.shard_idx + 1] = <<>>]
                     ELSE Append(st.shards, <<>>)]

\* a _close_shard that leaves _shard_idx as it is
close_shard_keep_index(st) ==
    IF st.sink.tar_open
    THEN [st EXCEPT !.sink = [tar_open |-> FALSE,
                              shard_idx |-> st.sink.shard_idx,
                              shard_sample_count |-> 0,
                              shard_bytes |-> 0]]
    ELSE st

\* a _close_shard that leaves _shard_sample_count as it is
close_shard_keep_count(st) ==
    IF st.sink.tar_open
    THEN [st EXCEPT !.sink = [tar_open |-> FALSE,
                              shard_idx |-> st.sink.shard_idx + 1,
                              shard_sample_count |-> st.sink.shard_sample_count,
                              shard_bytes |-> 0]]
    ELSE st

\* _close_shard
close_shard(st) ==
    IF st.sink.tar_open
    THEN [st EXCEPT !.sink = [tar_open |-> FALSE,
                              shard_idx |-> st.sink.shard_idx + 1,
                              shard_sample_count |-> 0,
                              shard_bytes |-> 0]]
    ELSE st

\* _write_sample and the counters of the loop body of write_batch
write_sample(st, sample) ==
    [sink |-> [st.sink EXCEPT !.shard_sample_count = @ + 1,
                              !.shard_bytes = @ + SampleBytes(sample)],
     shards |-> [st.shards EXCEPT ![st.sink.shard_idx + 1] =
                    Append(@, <<sample.dataset_id, sample.sample_id, sample.cls>>)]]

\* a loop body that rolls over with ">" in place of ">="
write_one_late_rollover(st, sample) ==
    LET w == write_sample(ensure_shard_open(st), sample)
    IN IF \/ w.sink.shard_sample_count > SamplesPerShard
          \/ w.sink.shard_bytes > TargetShardBytes
       THEN close_shard(w)
       ELSE w

\* one turn of the loop of write_batch
write_one(st, sample) ==
    LET w == write_sample(ensure_shard_open(st), sample)
    IN IF \/ w.sink.shard_sample_count >= SamplesPerShard
          \/ w.sink.shard_bytes >= TargetShardBytes
       THEN close_shard(w)
       ELSE w

RECURSIVE write_batch(_, _)
\* WebDatasetSink.write_batch
write_batch(st, samples) ==
    IF samples = <<>> THEN st
    ELSE write_batch(write_one(st, Head(samples)), Tail(samples))

\* WebDatasetSink.close
sink_close(st) == close_shard(st)

(***************************************************************************)
(* Dataset adapters (pipeline/base.py, adapters/medtrinity_demo.py).       *)
(***************************************************************************)
\* every sample adapter d emits, in emission order
emitted(d) == [k \in 1..Len(datasets[d]) |-> Sample(d, k - 1, datasets[d][k])]

\* an adapter that ignores the resume argument
stream_from_start(d, skip) == emitted(d)

\* BaseDataset.stream(skip): "If 'skip' is provided, skip the first 'skip'
\* samples"
stream(d, skip) ==
    IF skip = None THEN emitted(d)
    ELSE SubSeq(emitted(d), skip + 1, Len(emitted(d)))

(***************************************************************************)
(* Pipeline driver (pipeline/pipeline.py).                                 *)
(***************************************************************************)
RECURSIVE passed_entries(_)
\* [(r.dataset_id, r.sample_id) for r in results if r.passed]
passed_entries(rs) ==
    IF rs = <<>> THEN <<>>
    ELSE (IF Head(rs).passed THEN << <<Head(rs).dataset_id, Head(rs).sample_id>> >>
          ELSE <<>>) \o passed_entries(Tail(rs))

RECURSIVE passed_samples(_, _)
\* [s for s, r in zip(batch, results) if r.passed]
passed_samples(b, rs) ==
    IF b = <<>> \/ rs = <<>> THEN <<>>
    ELSE (IF Head(rs).passed THEN <<Head(b)>> ELSE <<>>)
         \o passed_samples(Tail(b), Tail(rs))

\* identifiers of a list of samples
ids(samples) == [k \in DOMAIN samples |-> samples[k].sample_id]

NoLastCall ==
    [valid |-> FALSE, img_hash |-> 0, dataset_id |-> 0, sample_id |-> None,
     present |-> FALSE, own |-> FALSE, inserted |-> FALSE, unchanged |-> TRUE,
     ret |-> FALSE, err |-> FALSE]

NoCall == [active |-> FALSE, entries |-> <<>>, next |-> 1, txn |-> <<>>]
NoHist == [calls |-> 0, failed |-> FALSE, pairs |-> {}, before |-> <<>>,
           entries |-> <<>>]

NoEval == [valid |-> FALSE, idx |-> 0, invoked |-> <<>>, passed |-> FALSE,
           unchanged |-> TRUE]
NoCodec == [phase |-> "none", sample |-> <<>>, payload |-> <<>>, decoded |-> <<>>]
NoCkpt == [op |-> "none", d |-> 0, last |-> None, before |-> <<>>, calls |-> 0]

LogEntry(op, d, first, args) == [op |-> op, d |-> d, first |-> first, args |-> args]

\* pool.process_batch(batch) is called: the samples handed to the pool
Submit(d, b) ==
    LogEntry("submit", d, b[1].sample_id, [k \in DOMAIN b |-> <<d, b[k].sample_id>>])

\* Pipeline.scan up to the loop over the datasets: a new process with a new
\* WebDatasetSink and a new worker pool ("with WorkerPool(...) as pool")
scan_begin ==
    /\ pc \in {"idle", "crashed", "failed", "done"}
    /\ runs < MaxRuns
    /\ runs' = runs + 1
    /\ pc' = "dataset"
    /\ ds' = 1
    /\ sink' = NewSink
    /\ log' = <<>>
    /\ at_start' = [allowlist |-> allowlist, progress |-> progress, shards |-> shards]
    /\ wpool' = [wpool EXCEPT !.open = TRUE]
    /\ UNCHANGED <<it, batch, tail, pending, finished, results>>
    /\ UNCHANGED <<last_call, accepted, tried, verdict, store_errors>>
    /\ UNCHANGED <<cfgvars, durable, store, last_eval, ckpt, sink_calls, codec, fcall>>

\* a driver that resumes at the checkpointed sample instead of after it
scan_dataset_resume_at_last ==
    /\ pc = "dataset"
    /\ ds \in Datasets
    /\ IF is_complete(progress, ds)
       THEN /\ ds' = ds + 1
            /\ log' = Append(log, LogEntry("skip", ds, None, <<>>))
            /\ UNCHANGED <<pc, it, batch, tail>>
       ELSE LET last_id == get_last_sample_id(progress, ds)
                skip == IF last_id # None THEN last_id ELSE None
            IN /\ it' = stream(ds, skip)
               /\ log' = Append(log, LogEntry("stream", ds, skip, <<>>))
               /\ batch' = <<>>
               /\ tail' = FALSE
               /\ pc' = "stream"
               /\ ds' = ds
    /\ UNCHANGED <<pending, finished, results, sink>>
    /\ UNCHANGED <<runs, last_call, accepted, tried, verdict, store_errors>>
    /\ UNCHANGED <<cfgvars, durable, store, observed>>

\* _scan_dataset, lines 52-70: skip a complete dataset, or open the stream
scan_dataset ==
    /\ pc = "dataset"
    /\ ds \in Datasets
    /\ IF is_complete(progress, ds)
       THEN /\ ds' = ds + 1
            /\ log' = Append(log, LogEntry("skip", ds, None, <<>>))
            /\ UNCHANGED <<pc, it, batch, tail>>
       ELSE LET last_id == get_last_sample_id(progress, ds)
                skip == IF last_id # None THEN last_id + 1 ELSE None
            IN /\ it' = stream(ds, skip)
               /\ log' = Append(log, LogEntry("stream", ds, skip, <<>>))
               /\ batch' = <<>>
               /\ tail' = FALSE
               /\ pc' = "stream"
               /\ ds' = ds
    /\ UNCHANGED <<pending, finished, results, sink>>
    /\ UNCHANGED <<runs, last_call, accepted, tried, verdict, store_errors>>
    /\ UNCHANGED <<cfgvars, durable, store, observed>>

\* one turn of "for sample in dataset.stream(skip)": append, and hand a full
\* batch to the pool
stream_next ==
    /\ pc = "stream"
    /\ it # <<>>
    /\ batch' = Append(batch, Head(it))
    /\ it' = Tail(it)
    /\ IF Len(batch') >= batch_size
       THEN /\ pc' = "process"
            /\ pending' = DOMAIN batch'
            /\ finished' = <<>>
            /\ log' = Append(log, Submit(ds, batch'))
       ELSE UNCHANGED <<pc, pending, finished, log>>
    /\ UNCHANGED <<ds, tail, results, sink>>
    /\ UNCHANGED <<runs, last_call, accepted, tried, verdict, store_errors>>
    /\ UNCHANGED <<cfgvars, durable, store, observed>>

\* a driver that forgets the remaining samples when the stream is exhausted
stream_end_no_flush ==
    /\ pc = "stream"
    /\ it = <<>>
    /\ tail' = TRUE
    /\ batch' = <<>>
    /\ pc' = "mark"
    /\ UNCHANGED <<ds, it, pending, finished, results, sink>>
    /\ UNCHANGED <<cfgvars, durable, history, store, observed>>

\* the stream is exhausted: flush the remaining samples, or go on to
\* mark_complete
stream_end ==
    /\ pc = "stream"
    /\ it = <<>>
    /\ tail' = TRUE
    /\ IF batch # <<>>
       THEN /\ pc' = "process"
            /\ pending' = DOMAIN batch
            /\ finished' = <<>>
            /\ log' = Append(log, Submit(ds, batch))
       ELSE /\ pc' = "mark"
            /\ UNCHANGED <<pending, finished, log>>
    /\ UNCHANGED <<ds, it, batch, results, sink>>
    /\ UNCHANGED <<runs, last_call, accepted, tried, verdict, store_errors>>
    /\ UNCHANGED <<cfgvars, durable, store, observed>>

\* one worker runs _process_sample on the serialized sample at place i of
\* the batch; err: the dedup store raises sqlite3.OperationalError
\* (at: where the driver stands meanwhile)
worker_in(at, i, err) ==
    /\ pc = at
    /\ i \in pending
    /\ LET data == serialize(batch[i])
           sample == deserialize(data)
           called == reaches_dedup(filters, sample)
           r == IF gen = "pipeline"
                THEN process_sample(data, filters, seen_hashes, err)
                ELSE process_sample_src(data, filters, seen_hashes, err)
           c == check_and_insert(seen_hashes, sample.hash, sample.dataset_id,
                                 sample.sample_id, err)
           row == HashRow(sample.hash, sample.dataset_id, sample.sample_id)
       IN /\ err => (called /\ store_errors > 0)
          /\ seen_hashes' = r.tbl
          /\ finished' = Append(finished, [idx |-> i, res |-> r.res])
          /\ pending' = pending \ {i}
          /\ verdict' = [verdict EXCEPT ![<<batch[i].dataset_id, batch[i].sample_id>>] =
                            IF r.res.passed THEN "pass" ELSE "fail"]
          /\ last_call' =
                IF called
                THEN [valid |-> TRUE, img_hash |-> sample.hash,
                      dataset_id |-> sample.dataset_id, sample_id |-> sample.sample_id,
                      present |-> rows_of(seen_hashes, sample.hash) # {},
                      own |-> row \in seen_hashes,
                      inserted |-> row \in r.tbl /\ row \notin seen_hashes,
                      unchanged |-> r.tbl = seen_hashes,
                      ret |-> c.ret, err |-> err]
                ELSE last_call
          /\ accepted' = IF called /\ c.ret
                         THEN [accepted EXCEPT ![sample.hash] = @ + 1]
                         ELSE accepted
          /\ tried' = IF called /\ ~err
                      THEN [tried EXCEPT ![sample.hash] = TRUE]
                      ELSE tried
          /\ store_errors' = IF err THEN store_errors - 1 ELSE store_errors
          /\ last_eval' = [valid |-> TRUE, idx |-> i, invoked |-> r.invoked,
                           passed |-> r.res.passed, unchanged |-> r.tbl = seen_hashes]
    /\ UNCHANGED <<pc, ds, it, batch, tail, results, sink>>
    /\ UNCHANGED <<runs, log>>
    /\ UNCHANGED <<cfgvars, allowlist, progress, shards, store, at_start, ckpt, sink_calls, codec, wpool, fcall>>

\* the same while the driver waits in pool.map
worker(i, err) == worker_in("process", i, err)

\* a payload Sample.deserialize cannot decode: msgspec raises on bytes that
\* do not parse as a SerializedSample, to_sample raises ValueError on an
\* unknown sample_type
undecodable(data) == [data EXCEPT !.sample_type = "unknown"]

\* whether Sample.deserialize returns a sample
can_deserialize(data) == data.sample_type \in {"text", "image", "image_text"}

\* places of the batch whose payload could not be decoded
UndecodablePlaces ==
    { log[k].args[1] : k \in { j \in DOMAIN log : log[j].op = "undecodable" } }

\* one worker runs _process_sample on an undecodable payload at place i of
\* the batch.  pipeline/workers.py calls Sample.deserialize before its try:
\* the exception leaves _process_sample and pool.map raises it in
\* process_batch.  src/workers.py calls it inside the try and returns
\* FilterResult("", "", False).
worker_undecodable(i) ==
    /\ pc = "process"
    /\ i \in pending
    /\ Cardinality(UndecodablePlaces) < MaxUndecodable
    /\ ~can_deserialize(undecodable(serialize(batch[i])))
    /\ log' = Append(log, LogEntry("undecodable", ds, batch[i].sample_id, <<i>>))
    /\ IF gen = "pipeline"
       THEN /\ pc' = "failed"
            /\ UNCHANGED <<pending, finished, verdict>>
       ELSE /\ finished' = Append(finished, [idx |-> i, res |-> FilterResult(0, None, FALSE)])
            /\ pending' = pending \ {i}
            /\ verdict' = [verdict EXCEPT ![<<batch[i].dataset_id, batch[i].sample_id>>] = "fail"]
            /\ UNCHANGED pc
    /\ UNCHANGED <<ds, it, batch, tail, results, sink>>
    /\ UNCHANGED <<runs, last_call, accepted, tried, store_errors>>
    /\ UNCHANGED <<cfgvars, durable, store, observed>>

\* WorkerPool.process_batch returns once every sample has its verdict
process_batch ==
    /\ pc = "process"
    /\ pending = {}
    /\ results' = pool_map(finished, Len(batch))
    /\ pc' = "add"
    /\ log' = Append(log, LogEntry("process_batch", ds, batch[1].sample_id,
                                   passed_entries(results')))
    /\ last_eval' = NoEval
    /\ UNCHANGED <<ds, it, batch, tail, pending, finished, sink>>
    /\ UNCHANGED <<runs, last_call, accepted, tried, verdict, store_errors>>
    /\ UNCHANGED <<cfgvars, durable, store, at_start, ckpt, sink_calls, codec, wpool, fcall>>

\* a driver that leaves the manifest commit of the batch out
manifest_not_committed ==
    /\ pc = "add"
    /\ pc' = IF passed_entries(results) # <<>> /\ sink_on THEN "write" ELSE "update"
    /\ UNCHANGED <<ds, it, batch, tail, pending, finished, results, sink>>
    /\ UNCHANGED <<cfgvars, durable, history, store, observed>>

\* a driver that calls checkpoint.update ahead of allowlist.add_batch
update_before_add_batch ==
    /\ pc = "add"
    /\ LET entries == passed_entries(results)
           upd == LogEntry("update", ds, batch[1].sample_id,
                           << <<ds, batch[Len(batch)].sample_id>> >>)
       IN /\ progress' = update(progress, ds, batch[Len(batch)].sample_id)
          /\ allowlist' = add_batch(allowlist, entries)
          /\ log' = IF entries # <<>>
                    THEN log \o <<upd, LogEntry("add_batch", ds, batch[1].sample_id, entries)>>
                    ELSE Append(log, upd)
          /\ pc' = IF entries # <<>> /\ sink_on THEN "write" ELSE "update"
    /\ UNCHANGED <<ds, it, batch, tail, pending, finished, results, sink>>
    /\ UNCHANGED <<runs, last_call, accepted, tried, verdict, store_errors>>
    /\ UNCHANGED <<cfgvars, seen_hashes, shards, store, observed>>

\* _process_batch, lines 97-99: allowlist.add_batch(passed_entries)
commit_manifest ==
    /\ pc = "add"
    /\ LET entries == passed_entries(results)
       IN IF entries # <<>>
          THEN /\ allowlist' = add_batch(allowlist, entries)
               /\ log' = Append(log, LogEntry("add_batch", ds, batch[1].sample_id, entries))
               /\ pc' = IF sink_on THEN "write" ELSE "update"
          ELSE /\ pc' = "update"
               /\ UNCHANGED <<allowlist, log>>
    /\ UNCHANGED <<ds, it, batch, tail, pending, finished, results, sink>>
    /\ UNCHANGED <<runs, last_call, accepted, tried, verdict, store_errors>>
    /\ UNCHANGED <<cfgvars, progress, seen_hashes, shards, store, observed>>

\* a driver that hands the whole batch to the sink
commit_sink_whole_batch ==
    /\ pc = "write"
    /\ LET samples == batch
           st == write_batch([sink |-> sink, shards |-> shards], samples)
       IN /\ sink' = st.sink
          /\ shards' = st.shards
          /\ log' = Append(log, LogEntry("write_batch", ds, batch[1].sample_id,
                                         [k \in DOMAIN samples |->
                                            <<samples[k].dataset_id, samples[k].sample_id>>]))
    /\ pc' = "update"
    /\ UNCHANGED <<ds, it, batch, tail, pending, finished, results>>
    /\ UNCHANGED <<runs, last_call, accepted, tried, verdict, store_errors>>
    /\ UNCHANGED <<cfgvars, allowlist, progress, seen_hashes, store, observed>>

\* _process_batch, lines 101-103: sink.write_batch(passed_samples)
commit_sink ==
    /\ pc = "write"
    /\ LET samples == passed_samples(batch, results)
           st == write_batch([sink |-> sink, shards |-> shards], samples)
       IN /\ sink' = st.sink
          /\ shards' = st.shards
          /\ log' = Append(log, LogEntry("write_batch", ds, batch[1].sample_id,
                                         [k \in DOMAIN samples |->
                                            <<samples[k].dataset_id, samples[k].sample_id>>]))
    /\ pc' = "update"
    /\ UNCHANGED <<ds, it, batch, tail, pending, finished, results>>
    /\ UNCHANGED <<runs, last_call, accepted, tried, verdict, store_errors>>
    /\ UNCHANGED <<cfgvars, allowlist, progress, seen_hashes, store, observed>>

\* a driver that checkpoints the last passed sample of the batch, and nothing
\* when no sample passed
commit_checkpoint_last_passed ==
    /\ pc = "update"
    /\ LET entries == passed_entries(results)
       IN IF entries # <<>>
          THEN /\ progress' = update(progress, ds, entries[Len(entries)][2])
               /\ log' = Append(log, LogEntry("update", ds, batch[1].sample_id,
                                              << entries[Len(entries)] >>))
          ELSE UNCHANGED <<progress, log>>
    /\ batch' = <<>>
    /\ results' = <<>>
    /\ finished' = <<>>
    /\ pc' = IF tail THEN "mark" ELSE "stream"
    /\ UNCHANGED <<ds, it, tail, pending, sink>>
    /\ UNCHANGED <<runs, last_call, accepted, tried, verdict, store_errors>>
    /\ UNCHANGED <<cfgvars, allowlist, seen_hashes, shards, store, observed>>

\* _scan_dataset, lines 79-81 and 88: checkpoint.update with the last
\* sample of the batch, then an empty batch
commit_checkpoint ==
    /\ pc = "update"
    /\ progress' = update(progress, ds, batch[Len(batch)].sample_id)
    /\ log' = Append(log, LogEntry("update", ds, batch[1].sample_id,
                                   << <<ds, batch[Len(batch)].sample_id>> >>))
    /\ batch' = <<>>
    /\ results' = <<>>
    /\ finished' = <<>>
    /\ pc' = IF tail THEN "mark" ELSE "stream"
    /\ UNCHANGED <<ds, it, tail, pending, sink>>
    /\ UNCHANGED <<runs, last_call, accepted, tried, verdict, store_errors>>
    /\ UNCHANGED <<cfgvars, allowlist, seen_hashes, shards, store, observed>>

\* a driver that goes on to the next dataset without calling mark_complete
next_dataset_unmarked ==
    /\ pc = "mark"
    /\ ds' = ds + 1
    /\ pc' = "dataset"
    /\ UNCHANGED <<it, batch, tail, pending, finished, results, sink>>
    /\ UNCHANGED <<cfgvars, durable, history, store, observed>>

\* _scan_dataset, line 90: checkpoint.mark_complete, then the next dataset
complete_dataset ==
    /\ pc = "mark"
    /\ progress' = mark_complete(progress, ds)
    /\ log' = Append(log, LogEntry("mark_complete", ds, None, <<>>))
    /\ ds' = ds + 1
    /\ pc' = "dataset"
    /\ UNCHANGED <<it, batch, tail, pending, finished, results, sink>>
    /\ UNCHANGED <<runs, last_call, accepted, tried, verdict, store_errors>>
    /\ UNCHANGED <<cfgvars, allowlist, seen_hashes, shards, store, observed>>

\* Pipeline.scan after the loop: the pool is closed, then sink.close()
scan_end ==
    /\ pc = "dataset"
    /\ ds \notin Datasets
    /\ LET st == IF sink_on THEN sink_close([sink |-> sink, shards |-> shards])
                 ELSE [sink |-> sink, shards |-> shards]
       IN /\ sink' = st.sink
          /\ shards' = st.shards
    /\ pc' = "done"
    /\ wpool' = [wpool EXCEPT !.open = FALSE]
    /\ UNCHANGED <<ds, it, batch, tail, pending, finished, results>>
    /\ UNCHANGED <<cfgvars, allowlist, progress, seen_hashes, history, store>>
    /\ UNCHANGED <<last_eval, at_start, ckpt, sink_calls, codec, fcall>>

\* the process dies: the sqlite files and the shard files stay as they are
crash ==
    /\ pc \notin {"idle", "crashed", "done"}
    /\ pc' = "crashed"
    /\ ds' = 0
    /\ it' = <<>>
    /\ batch' = <<>>
    /\ tail' = FALSE
    /\ pending' = {}
    /\ finished' = <<>>
    /\ results' = <<>>
    /\ sink' = NewSink
    /\ wpool' = [wpool EXCEPT !.open = FALSE]
    /\ UNCHANGED <<cfgvars, durable, history, store>>
    /\ UNCHANGED <<last_eval, at_start, ckpt, sink_calls, codec, fcall>>

\* no filter-level model is running
NoFilterCall == [phase |-> "none", filter |-> <<>>, sample |-> <<>>, out |-> "none"]

\* no pool-level model of worker initialisation is running
NoPool == [open |-> FALSE, broken |-> {}, kwargs |-> FALSE, procs |-> <<>>, evals |-> {}]

\* nothing has been observed yet; no run has started
InitObserved ==
    /\ last_eval = NoEval
    /\ at_start = [allowlist |-> <<>>, progress |-> [d \in Datasets |-> NoRow],
                   shards |-> <<>>]
    /\ ckpt = NoCkpt
    /\ sink_calls = 0
    /\ codec = NoCodec
    /\ wpool = NoPool
    /\ fcall = NoFilterCall

Pairs == Datasets \X (0..(MaxSamples - 1))

Streams(n) == UNION { [1..m -> Kinds] : m \in 0..n }

Init ==
    /\ datasets \in { f \in [Datasets -> Streams(MaxSamples)] :
                        \A d \in Datasets : Len(f[d]) <= StreamBound(d) }
    /\ batch_size \in BatchSizes
    /\ filters \in Chains
    /\ sink_on \in BOOLEAN
    /\ gen = "pipeline"
    /\ allowlist = <<>>
    /\ progress = [d \in Datasets |-> NoRow]
    /\ seen_hashes = {}
    /\ shards = <<>>
    /\ pc = "idle"
    /\ ds = 0
    /\ it = <<>>
    /\ batch = <<>>
    /\ tail = FALSE
    /\ pending = {}
    /\ finished = <<>>
    /\ results = <<>>
    /\ sink = NewSink
    /\ runs = 0
    /\ log = <<>>
    /\ last_call = NoLastCall
    /\ accepted = [h \in Hashes |-> 0]
    /\ tried = [h \in Hashes |-> FALSE]
    /\ verdict = [p \in Pairs |-> "none"]
    /\ store_errors = 0
    /\ impl = "src"
    /\ call = NoCall
    /\ hist = NoHist
    /\ InitObserved

Next ==
    \/ scan_begin
    \/ scan_dataset
    \/ stream_next
    \/ stream_end
    \/ \E i \in 1..MaxSamples, err \in BOOLEAN : worker(i, err)
    \/ process_batch
    \/ commit_manifest
    \/ commit_sink
    \/ commit_checkpoint
    \/ complete_dataset
    \/ scan_end
    \/ crash

Spec == Init /\ [][Next]_vars

(***************************************************************************)
(* Store-level model of AllowlistDB.add_batch: callers make add_batch      *)
(* calls with any entries; a call runs statement by statement inside its   *)
(* transaction and the process may die at any statement.                   *)
(***************************************************************************)
EntryPairs == {1, 2} \X {0, 1}

EntryLists == UNION { [1..m -> EntryPairs] : m \in 1..MaxEntries }

\* add_batch is entered: "with self.conn" starts
add_batch_begin(entries) ==
    /\ pc = "store"
    /\ ~call.active
    /\ hist.calls < MaxCalls
    /\ call' = [active |-> TRUE, entries |-> entries, next |-> 1, txn |-> <<>>]
    /\ hist' = [hist EXCEPT !.calls = @ + 1, !.before = allowlist,
                            !.entries = entries]
    /\ UNCHANGED <<impl, cfgvars, durable, driver, history, observed>>

\* executemany runs the statement of the next entry; in src/core/allowlist.py
\* a duplicate raises and "with self.conn" rolls the transaction back
add_batch_execute ==
    /\ pc = "store"
    /\ call.active
    /\ call.next <= Len(call.entries)
    /\ LET e == call.entries[call.next]
           seen == hist.before \o call.txn
           after == IF impl = "src"
                    THEN [ok |-> TRUE, rows |-> insert_or_ignore(seen, e)]
                    ELSE insert(seen, e)
           txn == SubSeq(after.rows, Len(hist.before) + 1, Len(after.rows))
       IN IF after.ok
          THEN /\ call' = [call EXCEPT !.next = @ + 1, !.txn = txn]
               /\ allowlist' = in_transaction(hist.before, txn)
               /\ UNCHANGED hist
          ELSE /\ call' = NoCall
               /\ allowlist' = hist.before
               /\ hist' = [hist EXCEPT !.failed = TRUE]
    /\ UNCHANGED <<impl, cfgvars, progress, seen_hashes, shards, driver, history, observed>>

\* the block ends: the transaction is committed and add_batch returns
add_batch_commit ==
    /\ pc = "store"
    /\ call.active
    /\ call.next > Len(call.entries)
    /\ allowlist' = commit(hist.before, call.txn)
    /\ call' = NoCall
    /\ hist' = [hist EXCEPT !.pairs = @ \cup Range(call.entries)]
    /\ UNCHANGED <<impl, cfgvars, progress, seen_hashes, shards, driver, history, observed>>

\* the process dies inside add_batch: sqlite discards the open transaction
add_batch_crash ==
    /\ pc = "store"
    /\ call.active
    /\ call' = NoCall
    /\ UNCHANGED <<impl, hist, cfgvars, durable, driver, history, observed>>

InitStore ==
    /\ datasets = [d \in Datasets |-> <<>>]
    /\ batch_size = 1
    /\ filters = <<"MinResolution">>
    /\ sink_on = FALSE
    /\ gen = "pipeline"
    /\ allowlist = <<>>
    /\ progress = [d \in Datasets |-> NoRow]
    /\ seen_hashes = {}
    /\ shards = <<>>
    /\ pc = "store"
    /\ ds = 0
    /\ it = <<>>
    /\ batch = <<>>
    /\ tail = FALSE
    /\ pending = {}
    /\ finished = <<>>
    /\ results = <<>>
    /\ sink = NewSink
    /\ runs = 0
    /\ log = <<>>
    /\ last_call = NoLastCall
    /\ accepted = [h \in Hashes |-> 0]
    /\ tried = [h \in Hashes |-> FALSE]
    /\ verdict = [p \in Pairs |-> "none"]
    /\ store_errors = 0
    /\ impl \in {"src", "core"}
    /\ call = NoCall
    /\ hist = NoHist
    /\ InitObserved

NextStore ==
    \/ \E entries \in EntryLists : add_batch_begin(entries)
    \/ add_batch_execute
    \/ add_batch_commit
    \/ add_batch_crash

SpecStore == InitStore /\ [][NextStore]_vars

(***************************************************************************)
(* Pool-level model of WorkerPool.process_batch: one call with any batch,  *)
(* either _process_sample, and a dedup store that may raise.               *)
(***************************************************************************)
PoolBatches ==
    { [k \in 1..Len(f) |-> Sample(1, k - 1, f[k])] : f \in Streams(MaxSamples) \ {<<>>} }

InitPool ==
    /\ datasets = [d \in Datasets |-> <<>>]
    /\ batch_size = 1
    /\ filters \in Chains
    /\ sink_on = FALSE
    /\ gen \in {"pipeline", "src"}
    /\ allowlist = <<>>
    /\ progress = [d \in Datasets |-> NoRow]
    /\ seen_hashes = {}
    /\ shards = <<>>
    /\ pc = "process"
    /\ ds = 1
    /\ it = <<>>
    /\ batch \in PoolBatches
    /\ tail = FALSE
    /\ pending = DOMAIN batch
    /\ finished = <<>>
    /\ results = <<>>
    /\ sink = NewSink
    /\ runs = 1
    /\ log = <<>>
    /\ last_call = NoLastCall
    /\ accepted = [h \in Hashes |-> 0]
    /\ tried = [h \in Hashes |-> FALSE]
    /\ verdict = [p \in Pairs |-> "none"]
    /\ store_errors \in 0..MaxStoreErrors
    /\ impl = "src"
    /\ call = NoCall
    /\ hist = NoHist
    /\ InitObserved

NextPool ==
    \/ \E i \in 1..MaxSamples, err \in BOOLEAN : worker(i, err)
    \/ process_batch

SpecPool == InitPool /\ [][NextPool]_vars

\* the same call when payloads may be undecodable
NextDecode ==
    \/ \E i \in 1..MaxSamples, err \in BOOLEAN : worker(i, err)
    \/ \E i \in 1..MaxSamples : worker_undecodable(i)
    \/ process_batch

SpecDecode == InitPool /\ [][NextDecode]_vars

(***************************************************************************)
(* Store-level model of Checkpoint (src/checkpoint.py): callers make any   *)
(* update and mark_complete calls, on any state of the table.              *)
(***************************************************************************)
\* Checkpoint.update(d, last) is called and returns
checkpoint_update(d, last) ==
    /\ pc = "checkpoint"
    /\ ckpt.calls < MaxCheckpointCalls
    /\ progress' = update(progress, d, last)
    /\ ckpt' = [op |-> "update", d |-> d, last |-> last, before |-> progress,
                calls |-> ckpt.calls + 1]
    /\ UNCHANGED <<cfgvars, allowlist, seen_hashes, shards, driver, history, store>>
    /\ UNCHANGED <<last_eval, at_start, sink_calls, codec, wpool, fcall>>

\* Checkpoint.mark_complete(d) is called and returns
checkpoint_mark_complete(d) ==
    /\ pc = "checkpoint"
    /\ ckpt.calls < MaxCheckpointCalls
    /\ progress' = mark_complete(progress, d)
    /\ ckpt' = [op |-> "mark_complete", d |-> d, last |-> None, before |-> progress,
                calls |-> ckpt.calls + 1]
    /\ UNCHANGED <<cfgvars, allowlist, seen_hashes, shards, driver, history, store>>
    /\ UNCHANGED <<last_eval, at_start, sink_calls, codec, wpool, fcall>>

InitCheckpoint ==
    /\ datasets = [d \in Datasets |-> <<>>]
    /\ batch_size = 1
    /\ filters = <<"MinResolution">>
    /\ sink_on = FALSE
    /\ gen = "pipeline"
    /\ allowlist = <<>>
    /\ progress = [d \in Datasets |-> NoRow]
    /\ seen_hashes = {}
    /\ shards = <<>>
    /\ pc = "checkpoint"
    /\ ds = 0
    /\ it = <<>>
    /\ batch = <<>>
    /\ tail = FALSE
    /\ pending = {}
    /\ finished = <<>>
    /\ results = <<>>
    /\ sink = NewSink
    /\ runs = 0
    /\ log = <<>>
    /\ last_call = NoLastCall
    /\ accepted = [h \in Hashes |-> 0]
    /\ tried = [h \in Hashes |-> FALSE]
    /\ verdict = [p \in Pairs |-> "none"]
    /\ store_errors = 0
    /\ impl = "src"
    /\ call = NoCall
    /\ hist = NoHist
    /\ InitObserved

NextCheckpoint ==
    \/ \E d \in Datasets, last \in 0..(MaxSamples - 1) : checkpoint_update(d, last)
    \/ \E d \in Datasets : checkpoint_mark_complete(d)

SpecCheckpoint == InitCheckpoint /\ [][NextCheckpoint]_vars

(***************************************************************************)
(* Sink-level model of WebDatasetSink (pipeline/webdataset.py): one writer *)
(* gets any sequence of write_batch and close calls, with batches of any   *)
(* size and samples of the three classes.                                  *)
(***************************************************************************)
SinkKinds ==
    { [cls |-> "TextSample",      size |-> "none", hash |-> 0],
      [cls |-> "ImageSample",     size |-> "ok",   hash |-> 1],
      [cls |-> "ImageTextSample", size |-> "ok",   hash |-> 1] }

SinkBatches == UNION { [1..m -> SinkKinds] : m \in 0..MaxSinkBatch }

RECURSIVE total_samples(_)
\* the samples written so far (WebDatasetSink._total_samples)
total_samples(sh) ==
    IF sh = <<>> THEN 0 ELSE Len(Head(sh)) + total_samples(Tail(sh))

\* sink.write_batch(samples) is called and returns; the samples carry the
\* next sample ids of dataset 1
sink_write_batch(kinds) ==
    /\ pc = "sink"
    /\ sink_calls < MaxSinkCalls
    /\ total_samples(shards) + Len(kinds) <= MaxSinkSamples
    /\ sink_calls' = sink_calls + 1
    /\ LET n == total_samples(shards)
           samples == [k \in DOMAIN kinds |-> Sample(1, n + k - 1, kinds[k])]
           st == write_batch([sink |-> sink, shards |-> shards], samples)
       IN /\ sink' = st.sink
          /\ shards' = st.shards
          /\ log' = Append(log, LogEntry("write_batch", 1, n,
                                         [k \in DOMAIN samples |->
                                            <<samples[k].dataset_id, samples[k].sample_id>>]))
    /\ UNCHANGED <<pc, ds, it, batch, tail, pending, finished, results>>
    /\ UNCHANGED <<cfgvars, allowlist, progress, seen_hashes, store>>
    /\ UNCHANGED <<runs, last_call, accepted, tried, verdict, store_errors>>
    /\ UNCHANGED <<last_eval, at_start, ckpt, codec, wpool, fcall>>

\* sink.close() is called and returns
sink_close_call ==
    /\ pc = "sink"
    /\ sink_calls < MaxSinkCalls
    /\ sink_calls' = sink_calls + 1
    /\ LET st == sink_close([sink |-> sink, shards |-> shards])
       IN /\ sink' = st.sink
          /\ shards' = st.shards
    /\ log' = Append(log, LogEntry("close", 0, None, <<>>))
    /\ UNCHANGED <<pc, ds, it, batch, tail, pending, finished, results>>
    /\ UNCHANGED <<cfgvars, allowlist, progress, seen_hashes, store>>
    /\ UNCHANGED <<runs, last_call, accepted, tried, verdict, store_errors>>
    /\ UNCHANGED <<last_eval, at_start, ckpt, codec, wpool, fcall>>

InitSink ==
    /\ datasets = [d \in Datasets |-> <<>>]
    /\ batch_size = 1
    /\ filters = <<"MinResolution">>
    /\ sink_on = TRUE
    /\ gen = "pipeline"
    /\ allowlist = <<>>
    /\ progress = [d \in Datasets |-> NoRow]
    /\ seen_hashes = {}
    /\ shards = <<>>
    /\ pc = "sink"
    /\ ds = 0
    /\ it = <<>>
    /\ batch = <<>>
    /\ tail = FALSE
    /\ pending = {}
    /\ finished = <<>>
    /\ results = <<>>
    /\ sink = NewSink
    /\ runs = 0
    /\ log = <<>>
    /\ last_call = NoLastCall
    /\ accepted = [h \in Hashes |-> 0]
    /\ tried = [h \in Hashes |-> FALSE]
    /\ verdict = [p \in Pairs |-> "none"]
    /\ store_errors = 0
    /\ impl = "src"
    /\ call = NoCall
    /\ hist = NoHist
    /\ InitObserved

NextSink ==
    \/ \E kinds \in SinkBatches : sink_write_batch(kinds)
    \/ sink_close_call

SpecSink == InitSink /\ [][NextSink]_vars

(***************************************************************************)
(* Codec-level model of pipeline/schema.py: one sample of any variant is   *)
(* serialized and the payload is deserialized.  An image is its format tag *)
(* (Image.format, "None" for an image that was not read from a file), its  *)
(* mode, its pixel content and its alpha channel; a missing field of a     *)
(* sample or of a SerializedSample is the empty sequence.                  *)
(***************************************************************************)
ImageFormats == {"None", "PNG", "JPEG"}
PixelValues == 0..3
MetaValues == {"str", "list", "tuple"}
Texts == {"", "a"}

Images ==
    { [format |-> f, mode |-> "RGB", pixels |-> p, alpha |-> 0] :
        f \in ImageFormats, p \in PixelValues }
    \cup
    { [format |-> f, mode |-> "RGBA", pixels |-> p, alpha |-> a] :
        f \in ImageFormats, p \in PixelValues, a \in {0, 1} }

\* Image.convert("RGB"): the alpha channel is dropped
convert_rgb(image) == [image EXCEPT !.mode = "RGB", !.alpha = 0]

\* the JPEG encoder quantises: the fine detail of the pixel content is lost
jpeg_quantise(p) == (p \div 2) * 2

\* Image.save(buf, format=fmt): PNG keeps mode, pixels and alpha; JPEG stores
\* quantised pixels
save(image, fmt) ==
    [codec |-> fmt, mode |-> image.mode, alpha |-> image.alpha,
     pixels |-> IF fmt = "JPEG" THEN jpeg_quantise(image.pixels) ELSE image.pixels]

\* lines 60-68 and 90-98: fmt = image.format or "PNG", an RGBA image is
\* converted before it is saved as JPEG
image_to_bytes(image) ==
    LET fmt == IF image.format = "None" THEN "PNG" ELSE image.format
    IN [image_bytes |-> IF fmt = "JPEG" /\ image.mode = "RGBA"
                        THEN save(convert_rgb(image), fmt)
                        ELSE save(image, fmt),
        image_format |-> fmt]

\* msgspec.msgpack.encode of a metadata value: lists and tuples both become
\* msgpack arrays
msgpack_encode(v) == IF v \in {"list", "tuple"} THEN "array" ELSE v

\* msgspec.msgpack.decode of a metadata value typed Any: an array becomes a list
msgpack_decode(v) == IF v = "array" THEN "list" ELSE v

\* TextSample.serialize / ImageSample.serialize / ImageTextSample.serialize
sample_serialize(s) ==
    LET img == IF s.image = <<>> THEN <<>> ELSE image_to_bytes(s.image[1])
    IN [sample_type |-> CASE s.variant = "TextSample" -> "text"
                          [] s.variant = "ImageSample" -> "image"
                          [] s.variant = "ImageTextSample" -> "image_text",
        dataset_id |-> s.dataset_id,
        sample_id |-> s.sample_id,
        meta_data |-> msgpack_encode(s.meta),
        text |-> s.text,
        image_bytes |-> IF img = <<>> THEN <<>> ELSE <<img.image_bytes>>,
        image_format |-> IF img = <<>> THEN <<>> ELSE <<img.image_format>>]

\* Image.open(io.BytesIO(image_bytes)), image.load(), image.format = image_format
open_image(bytes, image_format) ==
    [format |-> image_format, mode |-> bytes.mode, pixels |-> bytes.pixels,
     alpha |-> bytes.alpha]

\* Sample.deserialize / SerializedSample.to_sample for a payload that
\* serialize produced
to_sample(msg) ==
    [variant |-> CASE msg.sample_type = "text" -> "TextSample"
                   [] msg.sample_type = "image" -> "ImageSample"
                   [] msg.sample_type = "image_text" -> "ImageTextSample",
     dataset_id |-> msg.dataset_id,
     sample_id |-> msg.sample_id,
     meta |-> msgpack_decode(msg.meta_data),
     text |-> IF msg.sample_type = "image" THEN <<>> ELSE msg.text,
     image |-> IF msg.sample_type = "text" THEN <<>>
               ELSE <<open_image(msg.image_bytes[1], msg.image_format[1])>>]

\* the valid samples of the three variants
CodecSamples ==
    { [variant |-> "TextSample", dataset_id |-> 1, sample_id |-> i, meta |-> m,
       text |-> <<t>>, image |-> <<>>] :
        i \in {0, 1}, m \in MetaValues, t \in Texts }
    \cup
    { [variant |-> "ImageSample", dataset_id |-> 1, sample_id |-> i, meta |-> m,
       text |-> <<>>, image |-> <<img>>] :
        i \in {0, 1}, m \in MetaValues, img \in Images }
    \cup
    { [variant |-> "ImageTextSample", dataset_id |-> 1, sample_id |-> i, meta |-> m,
       text |-> <<t>>, image |-> <<img>>] :
        i \in {0, 1}, m \in MetaValues, t \in Texts, img \in Images }

\* sample.serialize() is called in the driver process
codec_serialize ==
    /\ pc = "codec"
    /\ codec.phase = "sample"
    /\ codec' = [codec EXCEPT !.phase = "payload",
                              !.payload = <<sample_serialize(codec.sample[1])>>]
    /\ UNCHANGED <<cfgvars, durable, driver, history, store>>
    /\ UNCHANGED <<last_eval, at_start, ckpt, sink_calls, wpool, fcall>>

\* Sample.deserialize(payload) is called in a worker
codec_deserialize ==
    /\ pc = "codec"
    /\ codec.phase = "payload"
    /\ codec' = [codec EXCEPT !.phase = "decoded",
                              !.decoded = <<to_sample(codec.payload[1])>>]
    /\ UNCHANGED <<cfgvars, durable, driver, history, store>>
    /\ UNCHANGED <<last_eval, at_start, ckpt, sink_calls, wpool, fcall>>

InitCodec ==
    /\ datasets = [d \in Datasets |-> <<>>]
    /\ batch_size = 1
    /\ filters = <<"MinResolution">>
    /\ sink_on = FALSE
    /\ gen = "pipeline"
    /\ allowlist = <<>>
    /\ progress = [d \in Datasets |-> NoRow]
    /\ seen_hashes = {}
    /\ shards = <<>>
    /\ pc = "codec"
    /\ ds = 0
    /\ it = <<>>
    /\ batch = <<>>
    /\ tail = FALSE
    /\ pending = {}
    /\ finished = <<>>
    /\ results = <<>>
    /\ sink = NewSink
    /\ runs = 0
    /\ log = <<>>
    /\ last_call = NoLastCall
    /\ accepted = [h \in Hashes |-> 0]
    /\ tried = [h \in Hashes |-> FALSE]
    /\ verdict = [p \in Pairs |-> "none"]
    /\ store_errors = 0
    /\ impl = "src"
    /\ call = NoCall
    /\ hist = NoHist
    /\ last_eval = NoEval
    /\ at_start = [allowlist |-> <<>>, progress |-> [d \in Datasets |-> NoRow],
                   shards |-> <<>>]
    /\ ckpt = NoCkpt
    /\ sink_calls = 0
    /\ wpool = NoPool
    /\ fcall = NoFilterCall
    /\ \E s \in CodecSamples :
          codec = [phase |-> "sample", sample |-> <<s>>, payload |-> <<>>,
                   decoded |-> <<>>]

NextCodec ==
    \/ codec_serialize
    \/ codec_deserialize

SpecCodec == InitCodec /\ [][NextCodec]_vars

(***************************************************************************)
(* Fault-level model of the driver: the run of Spec without process        *)
(* crashes, where the adapter's stream, allowlist.add_batch and            *)
(* sink.write_batch may raise.  Pipeline.scan catches nothing: the         *)
(* exception leaves _scan_dataset, "with WorkerPool" closes the pool, the  *)
(* finally clause closes the sink, and scan ends with the exception.       *)
(***************************************************************************)
\* lines 45-47: "finally: if self.sink: self.sink.close()"
scan_finally(st) == IF sink_on THEN sink_close(st) ELSE st

\* "for sample in dataset.stream(skip)": the adapter raises instead of
\* yielding the next sample; the samples in the batch buffer are dropped
stream_raise ==
    /\ pc = "stream"
    /\ LET st == scan_finally([sink |-> sink, shards |-> shards])
       IN /\ sink' = st.sink
          /\ shards' = st.shards
    /\ log' = Append(log, LogEntry("stream_error", ds, None, <<>>))
    /\ pc' = "failed"
    /\ wpool' = [wpool EXCEPT !.open = FALSE]
    /\ ds' = 0
    /\ it' = <<>>
    /\ batch' = <<>>
    /\ tail' = FALSE
    /\ pending' = {}
    /\ finished' = <<>>
    /\ results' = <<>>
    /\ UNCHANGED <<runs, last_call, accepted, tried, verdict, store_errors>>
    /\ UNCHANGED <<cfgvars, allowlist, progress, seen_hashes, store>>
    /\ UNCHANGED <<last_eval, at_start, ckpt, sink_calls, codec, fcall>>

\* a driver that logs the add_batch error and goes on with the batch
add_batch_error_swallowed ==
    /\ pc = "add"
    /\ passed_entries(results) # <<>>
    /\ log' = Append(log, LogEntry("add_batch_error", ds, batch[1].sample_id,
                                   passed_entries(results)))
    /\ pc' = "update"
    /\ UNCHANGED <<ds, it, batch, tail, pending, finished, results, sink>>
    /\ UNCHANGED <<runs, last_call, accepted, tried, verdict, store_errors>>
    /\ UNCHANGED <<cfgvars, durable, store, observed>>

\* _process_batch, line 99: allowlist.add_batch raises; its transaction is
\* rolled back
add_batch_raise ==
    /\ pc = "add"
    /\ passed_entries(results) # <<>>
    /\ LET st == scan_finally([sink |-> sink, shards |-> shards])
       IN /\ sink' = st.sink
          /\ shards' = st.shards
    /\ log' = Append(log, LogEntry("add_batch_error", ds, batch[1].sample_id,
                                   passed_entries(results)))
    /\ pc' = "failed"
    /\ wpool' = [wpool EXCEPT !.open = FALSE]
    /\ ds' = 0
    /\ it' = <<>>
    /\ batch' = <<>>
    /\ tail' = FALSE
    /\ pending' = {}
    /\ finished' = <<>>
    /\ results' = <<>>
    /\ UNCHANGED <<runs, last_call, accepted, tried, verdict, store_errors>>
    /\ UNCHANGED <<cfgvars, allowlist, progress, seen_hashes, store>>
    /\ UNCHANGED <<last_eval, at_start, ckpt, sink_calls, codec, fcall>>

\* a driver that logs the write_batch error and goes on to checkpoint the batch
write_batch_error_swallowed(k) ==
    /\ pc = "write"
    /\ LET samples == passed_samples(batch, results)
       IN /\ k < Len(samples)
          /\ LET st == ensure_shard_open(write_batch([sink |-> sink, shards |-> shards],
                                                     SubSeq(samples, 1, k)))
             IN /\ sink' = st.sink
                /\ shards' = st.shards
          /\ log' = Append(log, LogEntry("write_batch_error", ds, batch[1].sample_id,
                                         [j \in 1..k |->
                                            <<samples[j].dataset_id, samples[j].sample_id>>]))
    /\ pc' = "update"
    /\ UNCHANGED <<ds, it, batch, tail, pending, finished, results>>
    /\ UNCHANGED <<runs, last_call, accepted, tried, verdict, store_errors>>
    /\ UNCHANGED <<cfgvars, allowlist, progress, seen_hashes, store, observed>>

\* _process_batch, line 103: sink.write_batch raises in _write_sample of
\* the sample at place k + 1, after it wrote the first k samples
write_batch_raise(k) ==
    /\ pc = "write"
    /\ LET samples == passed_samples(batch, results)
       IN /\ k < Len(samples)
          /\ LET written == write_batch([sink |-> sink, shards |-> shards],
                                        SubSeq(samples, 1, k))
                 st == scan_finally(ensure_shard_open(written))
             IN /\ sink' = st.sink
                /\ shards' = st.shards
          /\ log' = Append(log, LogEntry("write_batch_error", ds, batch[1].sample_id,
                                         [j \in 1..k |->
                                            <<samples[j].dataset_id, samples[j].sample_id>>]))
    /\ pc' = "failed"
    /\ wpool' = [wpool EXCEPT !.open = FALSE]
    /\ ds' = 0
    /\ it' = <<>>
    /\ batch' = <<>>
    /\ tail' = FALSE
    /\ pending' = {}
    /\ finished' = <<>>
    /\ results' = <<>>
    /\ UNCHANGED <<runs, last_call, accepted, tried, verdict, store_errors>>
    /\ UNCHANGED <<cfgvars, allowlist, progress, seen_hashes, store>>
    /\ UNCHANGED <<last_eval, at_start, ckpt, sink_calls, codec, fcall>>

NextFaults ==
    \/ scan_begin
    \/ scan_dataset
    \/ stream_next
    \/ stream_end
    \/ \E i \in 1..MaxSamples, err \in BOOLEAN : worker(i, err)
    \/ process_batch
    \/ commit_manifest
    \/ commit_sink
    \/ commit_checkpoint
    \/ complete_dataset
    \/ scan_end
    \/ stream_raise
    \/ add_batch_raise
    \/ \E k \in 0..(MaxSamples - 1) : write_batch_raise(k)

SpecFaults == Init /\ [][NextFaults]_vars

(***************************************************************************)
(* Initialisation-level model of WorkerPool: the pool starts NumWorkers    *)
(* processes, each runs _init_worker on the initargs, then the samples of  *)
(* one process_batch call are handed to the worker processes.  main.py     *)
(* hands the pool filter factories: partial(FILTER_REGISTRY[name], **cfg). *)
(*   wpool.broken: the filters whose construction raises                   *)
(*   wpool.kwargs: the configuration of MinResolution names min_width      *)
(*   wpool.procs[w]: phase, _worker_filters and the factory calls of w     *)
(*   wpool.evals: which objects each verdict of the batch was computed by  *)
(***************************************************************************)
Workers == 1..NumWorkers

NewProc == [phase |-> "new", chain |-> <<>>, built |-> <<>>, called |-> <<>>]

\* factory(): the filter class is constructed from its configuration
build(f, broken) == IF f \in broken THEN "raise" ELSE "instance"

\* the factories the initializer calls before one raises, that one included
RECURSIVE built_until_raise(_, _)
built_until_raise(fs, broken) ==
    IF fs = <<>> THEN 0
    ELSE IF build(Head(fs), broken) = "raise" THEN 1
    ELSE 1 + built_until_raise(Tail(fs), broken)

\* _init_worker of src/workers.py: [factory() for factory in filter_factories]
init_worker_src(w, fs, broken) ==
    LET n == built_until_raise(fs, broken)
        ok == \A k \in DOMAIN fs : build(fs[k], broken) = "instance"
    IN [phase |-> IF ok THEN "ready" ELSE "dead",
        chain |-> IF ok
                  THEN [k \in DOMAIN fs |-> [kind |-> "instance", f |-> fs[k], owner |-> w]]
                  ELSE <<>>,
        built |-> [k \in DOMAIN fs |-> IF k <= n THEN 1 ELSE 0],
        called |-> [k \in DOMAIN fs |-> 0]]

\* _init_worker of pipeline/workers.py: _worker_filters = filters, the
\* initargs as they are
init_worker(w, fs, broken) ==
    [phase |-> "ready",
     chain |-> [k \in DOMAIN fs |-> [kind |-> "factory", f |-> fs[k], owner |-> 0]],
     built |-> [k \in DOMAIN fs |-> 0],
     called |-> [k \in DOMAIN fs |-> 0]]

\* f(sample) when f is a factory: the class is constructed with the sample
\* as its first positional argument.  ImageDeduplication(sample, db_path=..)
\* and ResolutionFilter(sample, min_width=..) raise TypeError (the argument
\* has two values); ResolutionFilter(sample) returns a filter object, which
\* all() takes as true.
factory_call(f, broken, kwargs) ==
    IF f \in broken THEN "raise"
    ELSE IF f = "ImageDeduplication" THEN "raise"
    ELSE IF kwargs THEN "raise"
    ELSE "true"

\* all(f(sample) for f in _worker_filters) over stored factories
\* (n: the factories called)
RECURSIVE all_factories(_, _, _)
all_factories(fs, broken, kwargs) ==
    IF fs = <<>> THEN [out |-> "true", n |-> 0]
    ELSE LET o == factory_call(Head(fs), broken, kwargs)
         IN IF o = "true"
            THEN LET rest == all_factories(Tail(fs), broken, kwargs)
                 IN [rest EXCEPT !.n = @ + 1]
            ELSE [out |-> o, n |-> 1]

\* the initializer of worker process w runs
pool_init_worker(w) ==
    /\ pc = "process"
    /\ wpool.procs[w].phase = "new"
    /\ wpool' = [wpool EXCEPT !.procs[w] =
                    IF gen = "src" THEN init_worker_src(w, filters, wpool.broken)
                    ELSE init_worker(w, filters, wpool.broken)]
    /\ UNCHANGED <<cfgvars, durable, driver, history, store>>
    /\ UNCHANGED <<last_eval, at_start, ckpt, sink_calls, codec, fcall>>

\* worker process w runs _process_sample on the sample at place i of the batch
pool_process_sample(w, i) ==
    /\ pc = "process"
    /\ wpool.procs[w].phase = "ready"
    /\ i \in pending
    /\ LET data == serialize(batch[i])
           sample == deserialize(data)
           stored == wpool.procs[w].chain
           byinst == \A k \in DOMAIN stored : stored[k].kind = "instance"
           r == process_sample_src(data, filters, seen_hashes, FALSE)
           c == all_factories(filters, wpool.broken, wpool.kwargs)
           res == IF byinst THEN r.res
                  ELSE FilterResult(sample.dataset_id, sample.sample_id, c.out = "true")
       IN /\ seen_hashes' = IF byinst THEN r.tbl ELSE seen_hashes
          /\ finished' = Append(finished, [idx |-> i, res |-> res])
          /\ pending' = pending \ {i}
          /\ verdict' = [verdict EXCEPT ![<<batch[i].dataset_id, batch[i].sample_id>>] =
                            IF res.passed THEN "pass" ELSE "fail"]
          /\ wpool' = [wpool EXCEPT
                          !.procs[w].called =
                              IF byinst THEN @
                              ELSE [k \in DOMAIN @ |-> IF k <= c.n THEN @[k] + 1 ELSE @[k]],
                          !.evals = @ \cup {[idx |-> i, w |-> w,
                                             by |-> IF byinst THEN "instances"
                                                    ELSE "factories"]}]
    /\ UNCHANGED <<pc, ds, it, batch, tail, results, sink>>
    /\ UNCHANGED <<runs, log, last_call, accepted, tried, store_errors>>
    /\ UNCHANGED <<cfgvars, allowlist, progress, shards, store>>
    /\ UNCHANGED <<last_eval, at_start, ckpt, sink_calls, codec, fcall>>

InitWorkers ==
    /\ datasets = [d \in Datasets |-> <<>>]
    /\ batch_size = 1
    /\ filters \in Chains
    /\ sink_on = FALSE
    /\ gen \in {"pipeline", "src"}
    /\ allowlist = <<>>
    /\ progress = [d \in Datasets |-> NoRow]
    /\ seen_hashes = {}
    /\ shards = <<>>
    /\ pc = "process"
    /\ ds = 1
    /\ it = <<>>
    /\ batch \in PoolBatches
    /\ tail = FALSE
    /\ pending = DOMAIN batch
    /\ finished = <<>>
    /\ results = <<>>
    /\ sink = NewSink
    /\ runs = 1
    /\ log = <<>>
    /\ last_call = NoLastCall
    /\ accepted = [h \in Hashes |-> 0]
    /\ tried = [h \in Hashes |-> FALSE]
    /\ verdict = [p \in Pairs |-> "none"]
    /\ store_errors = 0
    /\ impl = "src"
    /\ call = NoCall
    /\ hist = NoHist
    /\ last_eval = NoEval
    /\ at_start = [allowlist |-> <<>>, progress |-> [d \in Datasets |-> NoRow],
                   shards |-> <<>>]
    /\ ckpt = NoCkpt
    /\ sink_calls = 0
    /\ codec = NoCodec
    /\ fcall = NoFilterCall
    /\ \E b \in SUBSET Range(filters), kw \in BOOLEAN :
          wpool = [open |-> TRUE, broken |-> b, kwargs |-> kw,
                   procs |-> [w \in Workers |-> NewProc], evals |-> {}]

NextWorkers ==
    \/ \E w \in Workers : pool_init_worker(w)
    \/ \E w \in Workers, i \in 1..MaxSamples : pool_process_sample(w, i)
    \/ process_batch
    \/ commit_manifest

SpecWorkers == InitWorkers /\ [][NextWorkers]_vars

(***************************************************************************)
(* Cancellation-level model of the driver: the run of Spec without process *)
(* crashes, where the driver may be cancelled (KeyboardInterrupt in the    *)
(* main thread) wherever Pipeline.scan stands.  The exception leaves       *)
(* _scan_dataset; WorkerPool.__exit__ calls pool.close() and pool.join(),  *)
(* which returns when the workers have finished the samples already handed *)
(* to them; then the finally clause closes the sink.                       *)
(***************************************************************************)
Running == {"dataset", "stream", "process", "add", "write", "update"}

\* the last sample id of the batch in progress: of the batch handed to the
\* pool, or else of the batch committed last
batch_boundary ==
    IF pc \in {"process", "add", "write", "update"} /\ batch # <<>>
    THEN batch[Len(batch)].sample_id
    ELSE IF ds \in Datasets THEN get_last_sample_id(progress, ds) ELSE None

\* the cancellation is raised in the driver; the log keeps where it stood
\* and what was persisted then
cancel ==
    /\ pc \in Running
    /\ pc' = "cancelling"
    /\ log' = Append(log, LogEntry("cancel", ds, batch_boundary,
                                   <<allowlist, progress, shards>>))
    /\ UNCHANGED <<ds, it, batch, tail, pending, finished, results, sink>>
    /\ UNCHANGED <<runs, last_call, accepted, tried, verdict, store_errors>>
    /\ UNCHANGED <<cfgvars, durable, store, observed>>

\* pool.join() in WorkerPool.close: a worker finishes a sample of the batch
\* that pool.map had handed out
join_worker(i, err) == worker_in("cancelling", i, err)

\* a scan that leaves on cancellation without its finally clause: the
\* shard in progress stays open
cancel_exit_no_finally ==
    /\ pc = "cancelling"
    /\ pending = {}
    /\ wpool' = [wpool EXCEPT !.open = FALSE]
    /\ pc' = "cancelled"
    /\ ds' = 0
    /\ it' = <<>>
    /\ batch' = <<>>
    /\ tail' = FALSE
    /\ finished' = <<>>
    /\ results' = <<>>
    /\ UNCHANGED <<pending, sink>>
    /\ UNCHANGED <<cfgvars, durable, history, store>>
    /\ UNCHANGED <<last_eval, at_start, ckpt, sink_calls, codec, fcall>>

\* pool.join() has returned: WorkerPool.__exit__ ends, the finally clause
\* of scan closes the sink, the exception leaves scan
cancel_exit ==
    /\ pc = "cancelling"
    /\ pending = {}
    /\ wpool' = [wpool EXCEPT !.open = FALSE]
    /\ LET st == scan_finally([sink |-> sink, shards |-> shards])
       IN /\ sink' = st.sink
          /\ shards' = st.shards
    /\ pc' = "cancelled"
    /\ ds' = 0
    /\ it' = <<>>
    /\ batch' = <<>>
    /\ tail' = FALSE
    /\ finished' = <<>>
    /\ results' = <<>>
    /\ UNCHANGED pending
    /\ UNCHANGED <<cfgvars, allowlist, progress, seen_hashes, history, store>>
    /\ UNCHANGED <<last_eval, at_start, ckpt, sink_calls, codec, fcall>>

NextCancel ==
    \/ scan_begin
    \/ scan_dataset
    \/ stream_next
    \/ stream_end
    \/ \E i \in 1..MaxSamples, err \in BOOLEAN : worker(i, err)
    \/ process_batch
    \/ commit_manifest
    \/ commit_sink
    \/ commit_checkpoint
    \/ complete_dataset
    \/ scan_end
    \/ cancel
    \/ \E i \in 1..MaxSamples, err \in BOOLEAN : join_worker(i, err)
    \/ cancel_exit

SpecCancel == Init /\ [][NextCancel]_vars

(***************************************************************************)
(* Adapter-level model of MedtrinityDemoAdapter.stream                     *)
(* (adapters/medtrinity_demo.py): one call of stream(from_id) on a dataset *)
(* of any length up to MaxStream, from_id being the id of one of its       *)
(* samples or None.  Sample ids are the strings str(idx).                  *)
(***************************************************************************)
RECURSIVE str(_)
\* str(idx): the decimal digits of idx
str(n) == IF n < 10 THEN <<n>> ELSE Append(str(n \div 10), n % 10)

RECURSIVE str_le(_, _)
\* a <= b on Python strings: lexicographic, a proper prefix comes first
str_le(a, b) ==
    IF a = <<>> THEN TRUE
    ELSE IF b = <<>> THEN FALSE
    ELSE IF Head(a) # Head(b) THEN Head(a) < Head(b)
    ELSE str_le(Tail(a), Tail(b))

\* no resume argument
NoFrom == <<>>

RECURSIVE medtrinity_loop(_, _, _)
\* the loop of MedtrinityDemoAdapter.stream from index idx on, with the
\* current value of the local from_id: the indices it yields
medtrinity_loop(idx, n, from_id) ==
    IF idx >= n THEN <<>>
    ELSE IF from_id # NoFrom /\ str_le(str(idx), from_id)
         THEN medtrinity_loop(idx + 1, n, NoFrom)
         ELSE <<idx>> \o medtrinity_loop(idx + 1, n, from_id)

\* MedtrinityDemoAdapter.stream(from_id) of dataset d
medtrinity_stream(d, from_id) ==
    LET ix == medtrinity_loop(0, Len(datasets[d]), from_id)
    IN [k \in DOMAIN ix |-> emitted(d)[ix[k] + 1]]

\* stream(from_id) is called and consumed; j: the position of the sample
\* from_id designates, None for a call without argument
adapter_stream(j) ==
    /\ pc = "adapter"
    /\ j = None \/ j < Len(datasets[1])
    /\ it' = medtrinity_stream(1, IF j = None THEN NoFrom ELSE str(j))
    /\ log' = Append(log, LogEntry("stream", 1, j, <<>>))
    /\ pc' = "streamed"
    /\ UNCHANGED <<ds, batch, tail, pending, finished, results, sink>>
    /\ UNCHANGED <<runs, last_call, accepted, tried, verdict, store_errors>>
    /\ UNCHANGED <<cfgvars, durable, store, observed>>

\* the adapter is constructed again for another call
adapter_new ==
    /\ pc = "streamed"
    /\ Len(log) < MaxAdapterCalls
    /\ pc' = "adapter"
    /\ it' = <<>>
    /\ UNCHANGED <<ds, batch, tail, pending, finished, results, sink>>
    /\ UNCHANGED <<cfgvars, durable, history, store, observed>>

InitAdapter ==
    /\ \E n \in 0..MaxStream, k \in Kinds :
          datasets = [d \in Datasets |-> IF d = 1 THEN [i \in 1..n |-> k] ELSE <<>>]
    /\ batch_size = 1
    /\ filters = <<"MinResolution">>
    /\ sink_on = FALSE
    /\ gen = "src"
    /\ allowlist = <<>>
    /\ progress = [d \in Datasets |-> NoRow]
    /\ seen_hashes = {}
    /\ shards = <<>>
    /\ pc = "adapter"
    /\ ds = 1
    /\ it = <<>>
    /\ batch = <<>>
    /\ tail = FALSE
    /\ pending = {}
    /\ finished = <<>>
    /\ results = <<>>
    /\ sink = NewSink
    /\ runs = 0
    /\ log = <<>>
    /\ last_call = NoLastCall
    /\ accepted = [h \in Hashes |-> 0]
    /\ tried = [h \in Hashes |-> FALSE]
    /\ verdict = [p \in Pairs |-> "none"]
    /\ store_errors = 0
    /\ impl = "src"
    /\ call = NoCall
    /\ hist = NoHist
    /\ InitObserved

NextAdapter ==
    \/ \E j \in {None} \cup (0..(MaxStream - 1)) : adapter_stream(j)
    \/ adapter_new

SpecAdapter == InitAdapter /\ [][NextAdapter]_vars

(***************************************************************************)
(* Filter-level model of ResolutionFilter: one call of a filter            *)
(* MinResolution(min_width, min_height) on one sample of any variant and   *)
(* any resolution.  module: "filters" for filters/resolution.py,           *)
(* "filter_resolution" for filter_resolution.py.                           *)
(***************************************************************************)
Lengths == {50, 64, 100}
MinLengths == {64, 100}
FilterModules == {"filters", "filter_resolution"}

\* ResolutionFilter.__call__ of filters/resolution.py
resolution_call(f, sample) ==
    IF sample.cls # "ImageSample" THEN "true"
    ELSE IF sample.width < f.min_width \/ sample.height < f.min_height THEN "false"
    ELSE "true"

\* ResolutionFilter.__call__ of filter_resolution.py
resolution_call_old(f, sample) ==
    IF sample.cls # "ImageTextSample" THEN "raise"
    ELSE IF sample.width < f.min_width \/ sample.height < f.min_height THEN "false"
    ELSE "true"

\* the sample as the driver-level model sees it: its variant and whether
\* its image is below the configured minimum
AsKind(f, sample) ==
    [cls |-> sample.cls,
     size |-> IF sample.cls = "TextSample" THEN "none"
              ELSE IF sample.width < f.min_width \/ sample.height < f.min_height
                   THEN "small" ELSE "ok",
     hash |-> 0]

\* the filter is called on the sample
filter_call ==
    /\ pc = "filter"
    /\ fcall.phase = "sample"
    /\ fcall' = [fcall EXCEPT
                    !.phase = "returned",
                    !.out = IF fcall.filter[1].module = "filters"
                            THEN resolution_call(fcall.filter[1], fcall.sample[1])
                            ELSE resolution_call_old(fcall.filter[1], fcall.sample[1])]
    /\ UNCHANGED <<cfgvars, durable, driver, history, store>>
    /\ UNCHANGED <<last_eval, at_start, ckpt, sink_calls, codec, wpool>>

InitFilter ==
    /\ datasets = [d \in Datasets |-> <<>>]
    /\ batch_size = 1
    /\ filters = <<"MinResolution">>
    /\ sink_on = FALSE
    /\ gen = "pipeline"
    /\ allowlist = <<>>
    /\ progress = [d \in Datasets |-> NoRow]
    /\ seen_hashes = {}
    /\ shards = <<>>
    /\ pc = "filter"
    /\ ds = 0
    /\ it = <<>>
    /\ batch = <<>>
    /\ tail = FALSE
    /\ pending = {}
    /\ finished = <<>>
    /\ results = <<>>
    /\ sink = NewSink
    /\ runs = 0
    /\ log = <<>>
    /\ last_call = NoLastCall
    /\ accepted = [h \in Hashes |-> 0]
    /\ tried = [h \in Hashes |-> FALSE]
    /\ verdict = [p \in Pairs |-> "none"]
    /\ store_errors = 0
    /\ impl = "src"
    /\ call = NoCall
    /\ hist = NoHist
    /\ last_eval = NoEval
    /\ at_start = [allowlist |-> <<>>, progress |-> [d \in Datasets |-> NoRow],
                   shards |-> <<>>]
    /\ ckpt = NoCkpt
    /\ sink_calls = 0
    /\ codec = NoCodec
    /\ wpool = NoPool
    /\ \E m \in FilterModules, mw \in MinLengths, mh \in MinLengths,
          c \in {"TextSample", "ImageSample", "ImageTextSample"},
          w \in Lengths, h \in Lengths :
          fcall = [phase |-> "sample",
                   filter |-> <<[module |-> m, min_width |-> mw, min_height |-> mh]>>,
                   sample |-> <<[cls |-> c, width |-> w, height |-> h]>>,
                   out |-> "none"]

NextFilter == filter_call

SpecFilter == InitFilter /\ [][NextFilter]_vars

(***************************************************************************)
(* Properties.                                                             *)
(***************************************************************************)
Manifest == Range(allowlist)

\* all samples of the configured adapters
AllSamples == UNION { Range(emitted(d)) : d \in Datasets }

Key(sample) == <<sample.dataset_id, sample.sample_id>>

\* the samples check_and_insert is called for in a run of the chain
DedupSubjects == { s \in AllSamples : reaches_dedup(filters, s) }

\* the samples every filter but the dedup filter lets through
PassStateless == { s \in AllSamples : MinResolution(s) = "true" }

\* the batch of an uninterrupted run a sample falls in
BatchOf(s) == <<s.dataset_id, s.sample_id \div batch_size>>

Earlier(b1, b2) == b1[1] < b2[1] \/ (b1[1] = b2[1] /\ b1[2] <= b2[2])

\* the samples of hash h that can own h after an uninterrupted run: those of
\* the first batch that holds a sample of that hash
FirstClaimants(h) ==
    { s \in DedupSubjects : /\ s.hash = h
                            /\ \A u \in DedupSubjects :
                                 u.hash = h => Earlier(BatchOf(s), BatchOf(u)) }

\* a set of pairs is the manifest of some uninterrupted run
IsUninterruptedManifest(M) ==
    /\ M \subseteq { Key(s) : s \in PassStateless }
    /\ { Key(s) : s \in PassStateless \ DedupSubjects } \subseteq M
    /\ \A h \in Hashes :
          LET owners == { s \in DedupSubjects : s.hash = h /\ Key(s) \in M }
          IN IF FirstClaimants(h) = {} THEN owners = {}
             ELSE Cardinality(owners) = 1 /\ owners \subseteq FirstClaimants(h)

\* C1 (resume correctness): when a scan has run to its end, after any crash
\* and resume, the manifest is the manifest of an uninterrupted run.
C1_ResumeCorrectness ==
    pc = "done" => IsUninterruptedManifest(Manifest)

\* the same for runs that were never interrupted (sanity of the reference)
C1_Uninterrupted ==
    (pc = "done" /\ runs = 1) => IsUninterruptedManifest(Manifest)

\* the same for chains without the dedup filter
C1_StatelessFilters ==
    (pc = "done" /\ filters = <<"MinResolution">>) => IsUninterruptedManifest(Manifest)

\* a sample passed the filters: its last verdict was passed, or it passes
\* the stateless chain it is subject to
PassedFilters(s) ==
    \/ verdict[Key(s)] = "pass"
    \/ (s \in PassStateless /\ s \notin DedupSubjects)

SameBatch(e1, e2) == e1.d = e2.d /\ e1.first = e2.first

\* C3 (commit order): in the calls of a run, add_batch of a batch comes right
\* after its process_batch, write_batch right after its add_batch, and
\* checkpoint.update only after the add_batch and the write_batch the batch
\* needs.
C3_CommitOrder ==
    \A k \in DOMAIN log :
        /\ log[k].op = "add_batch" =>
              /\ k > 1
              /\ log[k - 1].op = "process_batch"
              /\ SameBatch(log[k - 1], log[k])
              /\ log[k].args = log[k - 1].args
        /\ log[k].op = "write_batch" =>
              /\ k > 1
              /\ sink_on
              /\ log[k - 1].op = "add_batch"
              /\ SameBatch(log[k - 1], log[k])
        /\ log[k].op = "update" =>
              /\ k > 1
              /\ SameBatch(log[k - 1], log[k])
              /\ \/ log[k - 1].op = "process_batch" /\ log[k - 1].args = <<>>
                 \/ log[k - 1].op = "add_batch" /\ ~sink_on
                 \/ log[k - 1].op = "write_batch"

\* a batch went through the three steps
C3_Witness ==
    /\ Len(log) >= 4
    /\ log[Len(log)].op = "update"
    /\ log[Len(log) - 1].op = "write_batch"
    /\ log[Len(log) - 2].op = "add_batch"
    /\ Len(log[Len(log) - 2].args) = 2

\* C4 (manifest idempotency): every add_batch call succeeds and, between
\* calls, the table holds one row per distinct pair of the calls made.
C4_ManifestIdempotent ==
    /\ ~hist.failed
    /\ ~call.active => Len(allowlist) = Cardinality(hist.pairs)

\* the same, of src/allowlist.py alone
C4_OrIgnore ==
    impl = "src" => C4_ManifestIdempotent

\* C5 (add_batch is atomic): in every state, inside a call, after a crash or
\* after a failed insert, the table holds all the pairs the call adds or none.
C5_AddBatchAtomic ==
    LET added == Range(allowlist) \ Range(hist.before)
        new == Range(hist.entries) \ Range(hist.before)
    IN /\ Range(hist.before) \subseteq Range(allowlist)
       /\ added = {} \/ added = new

\* a call has run some of its statements: two rows are pending, one more
\* entry is still to run
C5_Witness ==
    /\ call.active
    /\ Len(call.txn) = 2
    /\ call.next <= Len(call.entries)
    /\ call.entries[call.next] \notin Range(hist.before \o call.txn)

\* C6 (dedup uniqueness): of all samples of one hash handed to
\* check_and_insert, in any batch, run and order, at most one is accepted,
\* and exactly one once a call for the hash returned without a store error.
C6_DedupUniqueness ==
    \A h \in Hashes :
        /\ accepted[h] <= 1
        /\ tried[h] => accepted[h] = 1

\* a second sample of an owned hash was rejected
C6_Witness ==
    /\ last_call.valid
    /\ last_call.present
    /\ ~last_call.own
    /\ ~last_call.ret
    /\ accepted[last_call.img_hash] = 1

\* C7 (dedup idempotence on the winner): when the sample that owns a hash is
\* handed to check_and_insert again, it is accepted again.
C7_WinnerAcceptedAgain ==
    (last_call.valid /\ last_call.own /\ ~last_call.err) => last_call.ret

\* C8 (check_and_insert): it returns true exactly when the hash was absent
\* and the call inserted it; for a hash that is present it returns false
\* and leaves the table as it was.
C8_CheckAndInsert ==
    last_call.valid =>
        /\ last_call.ret <=> (~last_call.present /\ last_call.inserted)
        /\ last_call.present => (~last_call.ret /\ last_call.unchanged)
        /\ last_call.ret => HashRow(last_call.img_hash, last_call.dataset_id,
                                    last_call.sample_id) \in seen_hashes

\* a call found its hash present after another call had inserted it
C8_Witness ==
    /\ last_call.valid
    /\ last_call.present
    /\ ~last_call.ret
    /\ seen_hashes # {}
    /\ pc = "process"

\* C9 (verdicts aligned with the input): process_batch returns one verdict
\* per sample, the i-th carrying the identifiers of the i-th sample.
C9_VerdictsAligned ==
    pc = "add" =>
        /\ Len(results) = Len(batch)
        /\ \A k \in DOMAIN results :
              /\ results[k].dataset_id = batch[k].dataset_id
              /\ results[k].sample_id = batch[k].sample_id

\* the same, of pipeline/workers.py alone
C9_PipelineWorkers ==
    gen = "pipeline" => C9_VerdictsAligned

Increasing(args) ==
    \A j, k \in DOMAIN args : j < k => args[j][2] < args[k][2]

\* C10 (commit order is emission order): the pairs of every add_batch and the
\* samples of every write_batch are in emission order, later calls of a run
\* carry later samples, and the manifest rows of a dataset are in emission
\* order.
C10_EmissionOrder ==
    /\ \A j, k \in DOMAIN allowlist :
          (j < k /\ allowlist[j][1] = allowlist[k][1]) => allowlist[j][2] < allowlist[k][2]
    /\ \A k \in DOMAIN log :
          log[k].op \in {"add_batch", "write_batch"} =>
              /\ Increasing(log[k].args)
              /\ \A j \in 1..(k - 1) :
                    (log[j].op = log[k].op /\ log[j].d = log[k].d) =>
                        \A a \in Range(log[j].args), b \in Range(log[k].args) : a[2] < b[2]

\* the workers finished a batch in reverse order, both samples passed and
\* were committed to the manifest and the sink
C10_Witness ==
    /\ pc = "update"
    /\ sink_on
    /\ Len(finished) = 2
    /\ finished[1].idx = 2
    /\ Len(passed_entries(results)) = 2
    /\ Len(allowlist) = 2

\* C11 (short-circuit evaluation): a worker calls the filters in declared
\* order; every filter called before the last one returned true, so no filter
\* is called after a rejection; the verdict is passed exactly when the whole
\* chain was called and returned true; and when the first filter of a chain
\* of two rejects, the dedup store of the second is left untouched.
C11_ShortCircuit ==
    last_eval.valid =>
        LET inv == last_eval.invoked
            all_true == \A k \in DOMAIN inv : inv[k].out = "true"
        IN /\ Len(inv) <= Len(filters)
           /\ \A k \in DOMAIN inv : inv[k].f = filters[k]
           /\ \A k \in DOMAIN inv : k < Len(inv) => inv[k].out = "true"
           /\ last_eval.passed <=> (Len(inv) = Len(filters) /\ all_true)
           /\ (Len(filters) = 2 /\ inv[1].out # "true") =>
                 (Len(inv) = 1 /\ last_eval.unchanged)

\* the first filter of a chain of two rejected a sample whose hash another
\* sample of the batch had claimed: the second filter was not called
C11_Witness ==
    /\ last_eval.valid
    /\ Len(filters) = 2
    /\ Len(last_eval.invoked) = 1
    /\ last_eval.invoked[1].out = "false"
    /\ ~last_eval.passed
    /\ seen_hashes # {}

\* the samples of the stream on which a filter raises
Raisers == { s \in AllSamples : MinResolution(s) = "raise" }

\* C12 (filter error isolation): a sample on which a filter raised gets a
\* failed verdict that carries its identifiers; and after an uninterrupted
\* run, which went through every batch, every sample has a verdict, the raising samples are absent from the manifest and
\* the manifest is the one the other samples give on their own.
C12_FilterErrorIsolation ==
    /\ pc = "process" =>
          \A e \in Range(finished) :
              MinResolution(batch[e.idx]) = "raise" =>
                  /\ ~e.res.passed
                  /\ e.res.dataset_id = batch[e.idx].dataset_id
                  /\ e.res.sample_id = batch[e.idx].sample_id
    /\ (pc = "done" /\ runs = 1) =>
          /\ \A s \in AllSamples : verdict[Key(s)] # "none"
          /\ \A s \in Raisers : verdict[Key(s)] = "fail" /\ Key(s) \notin Manifest
          /\ IsUninterruptedManifest(Manifest)

\* a filter raised on sample 1 only: samples 0 and 2 are in the manifest,
\* sample 1 is not, and the run ended
C12_Witness ==
    /\ pc = "done"
    /\ runs = 1
    /\ Len(datasets[1]) = 3
    /\ { s.sample_id : s \in { r \in Raisers : r.dataset_id = 1 } } = {1}
    /\ { p \in Manifest : p[1] = 1 } = { <<1, 0>>, <<1, 2>> }

\* the rows of dataset d in the manifest table, in insertion order
DatasetRows(rows, d) == SelectSeq(rows, LAMBDA e : e[1] = d)

\* the samples of dataset d in the shard files, each with its shard
ShardSamples(sh, d) ==
    UNION { { <<k, e>> : e \in { x \in Range(sh[k]) : x[1] = d } } : k \in DOMAIN sh }

\* the datasets the checkpoint store reported complete when the run started
CompleteAtStart == { d \in Datasets : is_complete(at_start.progress, d) }

\* a run makes no call for a dataset that was complete when it started, and
\* leaves its manifest rows and its checkpoint row as they were
C13_NoCallsNoRows ==
    \A d \in CompleteAtStart :
        /\ \A k \in DOMAIN log : log[k].d = d => log[k].op = "skip"
        /\ DatasetRows(allowlist, d) = DatasetRows(at_start.allowlist, d)
        /\ progress[d] = at_start.progress[d]

\* C13 (completion skip): for a dataset that is complete when a run starts,
\* the run does not call the adapter's stream, submits none of its samples,
\* and leaves its manifest rows, its checkpoint row and its samples in the
\* shards unchanged.
C13_CompletionSkip ==
    /\ C13_NoCallsNoRows
    /\ \A d \in CompleteAtStart :
          ShardSamples(shards, d) = ShardSamples(at_start.shards, d)

\* the same when no sink is configured, or when every dataset was complete
C13_WithoutLaterWrites ==
    (~sink_on \/ CompleteAtStart = Datasets) => C13_CompletionSkip

\* C14 (completed implies consumed): in every state, over runs, crashes and
\* resumes, a dataset whose checkpoint row has completed set has had every
\* sample of its stream submitted to the filters in some run, and its
\* last_sample_id is the id of the last sample the adapter emits.
C14_CompleteMeansConsumed ==
    \A d \in Datasets :
        is_complete(progress, d) =>
            /\ \A s \in Range(emitted(d)) : verdict[Key(s)] # "none"
            /\ emitted(d) # <<>>
            /\ progress[d].last_sample_id = emitted(d)[Len(emitted(d))].sample_id

\* a dataset of three samples was completed by a resumed run
C14_Witness ==
    /\ is_complete(progress, 1)
    /\ Len(datasets[1]) = 3
    /\ runs = 2
    /\ is_complete(at_start.progress, 1) = FALSE
    /\ at_start.progress[1].exists

\* C15 (update): after update(d, last) the row of d exists with
\* last_sample_id = last; its completed flag is the one it had (0 for a new
\* row), so completed is never reset; every other row is as it was.
C15_UpdateFrame ==
    ckpt.op = "update" =>
        /\ progress[ckpt.d].exists
        /\ progress[ckpt.d].last_sample_id = ckpt.last
        /\ progress[ckpt.d].completed = ckpt.before[ckpt.d].completed
        /\ is_complete(ckpt.before, ckpt.d) => is_complete(progress, ckpt.d)
        /\ \A e \in Datasets \ {ckpt.d} : progress[e] = ckpt.before[e]

\* update was called for a dataset that was complete, with another pointer,
\* while another dataset had a row
C15_Witness ==
    /\ ckpt.op = "update"
    /\ is_complete(ckpt.before, ckpt.d)
    /\ ckpt.before[ckpt.d].last_sample_id # ckpt.last
    /\ \E e \in Datasets \ {ckpt.d} : progress[e].exists

\* C16 (mark_complete): after mark_complete(d) returns, the store reports d
\* complete, whatever the table held before, a missing row included.
C16_MarkComplete ==
    ckpt.op = "mark_complete" => is_complete(progress, ckpt.d)

\* the same for a dataset that has a row
C16_ExistingRow ==
    (ckpt.op = "mark_complete" /\ ckpt.before[ckpt.d].exists) => is_complete(progress, ckpt.d)

\* C17 (adapters are processed one after the other): in the calls of a run,
\* before any call for a dataset every earlier dataset was either skipped as
\* complete or had mark_complete called, and no call for it follows; and
\* while the driver is at a dataset, every sample of every earlier dataset
\* has been submitted and the checkpoint of every earlier dataset with a
\* non-empty stream stands at its last sample with completed set.
C17_SequentialAdapters ==
    /\ \A k \in DOMAIN log : \A d \in Datasets :
          d < log[k].d =>
              \E j \in 1..(k - 1) :
                  /\ log[j].d = d
                  /\ log[j].op \in {"skip", "mark_complete"}
                  /\ \A i \in (j + 1)..Len(log) : log[i].d # d
    /\ \A d \in Datasets :
          (pc \notin {"idle", "crashed"} /\ d < ds) =>
              /\ \A s \in Range(emitted(d)) : verdict[Key(s)] # "none"
              /\ emitted(d) # <<>> =>
                    /\ is_complete(progress, d)
                    /\ progress[d].last_sample_id = Len(emitted(d)) - 1

\* the second adapter's sample is submitted after the first adapter, of three
\* samples, was drained and marked complete in this run
C17_Witness ==
    /\ log # <<>>
    /\ log[Len(log)].op = "submit"
    /\ log[Len(log)].d = 2
    /\ Len(datasets[1]) = 3
    /\ \E j \in DOMAIN log : log[j].op = "mark_complete" /\ log[j].d = 1

C20_ShardCountBound ==
    \A k \in DOMAIN shards : Len(shards[k]) <= SamplesPerShard

\* one write_batch call of more than samples_per_shard samples filled a shard
\* and went on in the next one
C20_Witness ==
    /\ pc = "sink"
    /\ sink_calls = 1
    /\ Len(shards) = 2
    /\ Len(shards[1]) = SamplesPerShard
    /\ Len(shards[2]) >= 1

RECURSIVE shard_payload(_)
\* the bytes the sink counted for a shard: sum of the payload lengths
shard_payload(sh) ==
    IF sh = <<>> THEN 0 ELSE payload_bytes(Members(Head(sh)[3])) + shard_payload(Tail(sh))

RECURSIVE shard_size(_)
\* the size of a shard file: headers and padded data of all its members
shard_size(sh) ==
    IF sh = <<>> THEN 0 ELSE file_bytes(Members(Head(sh)[3])) + shard_size(Tail(sh))

SampleClasses == { k.cls : k \in SinkKinds }

\* the largest number of bytes one sample adds to a shard file, and the
\* largest number the sink counts for one sample
max_sample_bytes ==
    CHOOSE m \in { file_bytes(Members(c)) : c \in SampleClasses } :
        \A c \in SampleClasses : file_bytes(Members(c)) <= m

max_sample_payload ==
    CHOOSE m \in { payload_bytes(Members(c)) : c \in SampleClasses } :
        \A c \in SampleClasses : payload_bytes(Members(c)) <= m

\* C21 (rollover byte bound): no shard's size exceeds target_shard_bytes +
\* max_sample_bytes, and a sample is appended to a shard only if the shard
\* held fewer than target_shard_bytes bytes before that sample.
C21_RolloverByteBound ==
    \A k \in DOMAIN shards :
        /\ shard_size(shards[k]) <= TargetShardBytes + max_sample_bytes
        /\ \A j \in 2..Len(shards[k]) :
              shard_size(SubSeq(shards[k], 1, j - 1)) < TargetShardBytes

\* the same bound for the bytes the sink counts (len(data) of every member,
\* without the headers and the padding of the tar format)
C21_CountedBytes ==
    \A k \in DOMAIN shards :
        /\ shard_payload(shards[k]) <= TargetShardBytes + max_sample_payload
        /\ \A j \in 2..Len(shards[k]) :
              shard_payload(SubSeq(shards[k], 1, j - 1)) < TargetShardBytes

\* ceil(a / b) for b > 0
ceil_div(a, b) == (a + b - 1) \div b

\* the calls made to the sink so far are write_batch calls followed by one
\* close call
WrittenThenClosed ==
    /\ pc = "sink"
    /\ log # <<>>
    /\ log[Len(log)].op = "close"
    /\ \A k \in 1..(Len(log) - 1) : log[k].op = "write_batch"

\* the byte bound never closed a shard: every shard was below
\* target_shard_bytes (as the sink counts) while it held fewer than
\* samples_per_shard samples
OnlyCountRollover ==
    \A k \in DOMAIN shards :
        \A j \in 1..Len(shards[k]) :
            j < SamplesPerShard =>
                shard_payload(SubSeq(shards[k], 1, j)) < TargetShardBytes

\* C22 (shard layout): when only the count bound triggers rollover, writing K
\* samples in batches of any size and then calling close() leaves exactly
\* ceil(K / samples_per_shard) shards, all but the last with samples_per_shard
\* samples and the last with the remainder.
C22_ShardLayout ==
    (WrittenThenClosed /\ OnlyCountRollover) =>
        LET K == total_samples(shards)
            n == ceil_div(K, SamplesPerShard)
        IN /\ Len(shards) = n
           /\ \A k \in 1..(n - 1) : Len(shards[k]) = SamplesPerShard
           /\ n > 0 => Len(shards[n]) = K - (n - 1) * SamplesPerShard
           /\ ~sink.tar_open

\* one sample more than a shard holds was written in two batches and the sink
\* was closed: two shards, the last one with the remainder
C22_Witness ==
    /\ WrittenThenClosed
    /\ OnlyCountRollover
    /\ Len(log) >= 3
    /\ total_samples(shards) = SamplesPerShard + 1
    /\ Len(shards) = 2
    /\ Len(shards[2]) = 1

\* format normalisation of an image: a missing format tag stands for PNG, and
\* an image tagged JPEG has no alpha channel
normalise(image) ==
    LET fmt == IF image.format = "None" THEN "PNG" ELSE image.format
    IN IF fmt = "JPEG" /\ image.mode = "RGBA"
       THEN [convert_rgb(image) EXCEPT !.format = fmt]
       ELSE [image EXCEPT !.format = fmt]

\* a sample with its image normalised
normalised(s) ==
    IF s.image = <<>> THEN s ELSE [s EXCEPT !.image = <<normalise(s.image[1])>>]

\* C23 (codec round trip): for every valid sample of each variant and every
\* supported image format, deserialize(serialize(s)) is a sample of the same
\* variant with equal dataset_id, sample_id, metadata, text, and image
\* content and format tag after format normalisation.
C23_RoundTrip ==
    codec.phase = "decoded" =>
        normalised(codec.decoded[1]) = normalised(codec.sample[1])

\* the round trip is exact for the identifiers, the variant and the text of
\* every sample, and for the whole sample when the image is stored without
\* loss (PNG) and the metadata holds no tuple
C23_LosslessRoundTrip ==
    codec.phase = "decoded" =>
        LET s == codec.sample[1]
            r == codec.decoded[1]
        IN /\ r.variant = s.variant
           /\ r.dataset_id = s.dataset_id
           /\ r.sample_id = s.sample_id
           /\ r.text = s.text
           /\ (s.image = <<>>) = (r.image = <<>>)
           /\ s.meta # "tuple" => r.meta = s.meta
           /\ (s.image # <<>> /\ s.image[1].format # "JPEG")
                => normalise(r.image[1]) = normalise(s.image[1])
           /\ (s.image # <<>> /\ s.image[1].format = "JPEG")
                => /\ r.image[1].format = "JPEG"
                   /\ r.image[1].mode = "RGB"
                   /\ r.image[1].pixels = jpeg_quantise(s.image[1].pixels)

\* the stream of dataset d raised in the current run
StreamFailed(d) ==
    \E k \in DOMAIN log : log[k].op = "stream_error" /\ log[k].d = d

\* C24 (adapter error isolation): when an adapter's stream raises mid-stream,
\* the dataset is aborted without being marked complete, and the driver
\* proceeds to scan the next adapter of the list instead of ending the run.
C24_AdapterErrorIsolation ==
    \A d \in Datasets :
        StreamFailed(d) =>
            /\ ~is_complete(progress, d)
            /\ pc # "failed"
            /\ pc = "done" =>
                  \A e \in Datasets :
                      e > d => \E k \in DOMAIN log : log[k].d = e

\* the part that holds: the dataset whose stream raised is not marked
\* complete, and the next run streams it again from its checkpoint
C24_NotMarkedComplete ==
    \A d \in Datasets :
        StreamFailed(d) =>
            /\ ~is_complete(progress, d)
            /\ \A k \in DOMAIN log : log[k].d = d => log[k].op # "mark_complete"

\* what the code does instead: the exception ends the run, and no adapter
\* after the failing one is scanned in it
C24_RunEnds ==
    \A d \in Datasets :
        StreamFailed(d) =>
            /\ pc = "failed"
            /\ log[Len(log)].op = "stream_error"
            /\ \A k \in DOMAIN log : log[k].d <= d

\* the checkpoint row dataset d must have after the calls the current run
\* logged: the argument of its last update call, or the row of the start
LastCheckpointed(d) ==
    LET ups == { k \in DOMAIN log : log[k].op = "update" /\ log[k].d = d }
    IN IF ups = {} THEN at_start.progress[d].last_sample_id
       ELSE log[CHOOSE k \in ups : \A j \in ups : j <= k].args[1][2]

\* C25 (manifest commit failure): when allowlist.add_batch fails for a batch,
\* the run is aborted and the checkpoint is not advanced for that batch:
\* last_sample_id stays at the last sample of the last batch before it,
\* nothing of the failed batch is written to the sink, and the dataset is
\* not marked complete.
C25_ManifestFailureAborts ==
    \A k \in DOMAIN log :
        log[k].op = "add_batch_error" =>
            LET d == log[k].d
            IN /\ pc = "failed"
               /\ k = Len(log)
               /\ \A j \in DOMAIN log :
                     (log[j].d = d /\ log[j].first = log[k].first)
                        => log[j].op \in {"stream", "submit", "process_batch",
                                           "add_batch_error"}
               /\ \A j \in DOMAIN log :
                     log[j].d = d => log[j].op # "mark_complete"
               /\ get_last_sample_id(progress, d) = LastCheckpointed(d)
               /\ get_last_sample_id(progress, d) < log[k].first
               /\ ~is_complete(progress, d)
               /\ \A e \in Range(log[k].args) : e \notin Range(at_start.allowlist)
                                                  => e \notin Range(allowlist)
               /\ ~sink.tar_open

\* add_batch failed for the second batch of a dataset whose first batch was
\* committed and checkpointed in the same run
C25_Witness ==
    /\ pc = "failed"
    /\ log # <<>>
    /\ log[Len(log)].op = "add_batch_error"
    /\ \E j \in DOMAIN log : log[j].op = "add_batch" /\ log[j].d = log[Len(log)].d
    /\ progress[log[Len(log)].d].exists
    /\ progress[log[Len(log)].d].last_sample_id = log[Len(log)].first - 1

\* C26 (sink write failure): when sink.write_batch fails for a batch, the run
\* is aborted, the partially written shard is closed, the manifest rows of
\* the batch stay committed, and the checkpoint is not advanced past the
\* previous batch, so that the batch is processed again on resume.
C26_SinkFailureAborts ==
    \A k \in DOMAIN log :
        log[k].op = "write_batch_error" =>
            LET d == log[k].d
            IN /\ pc = "failed"
               /\ k = Len(log)
               /\ ~sink.tar_open
               /\ k > 1
               /\ log[k - 1].op = "add_batch"
               /\ log[k - 1].d = d
               /\ log[k - 1].first = log[k].first
               /\ \A e \in Range(log[k - 1].args) : e \in Range(allowlist)
               /\ \A e \in Range(log[k].args) : e \in Range(log[k - 1].args)
               /\ \A j \in DOMAIN log :
                     (log[j].d = d /\ log[j].first = log[k].first)
                        => log[j].op # "update"
               /\ get_last_sample_id(progress, d) = LastCheckpointed(d)
               /\ get_last_sample_id(progress, d) < log[k].first
               /\ ~is_complete(progress, d)

\* the run after a failed write_batch streams the dataset from the first
\* sample of the failed batch
C26_ProcessedAgain ==
    \A k \in DOMAIN log :
        (log[k].op = "stream" /\ runs > 1 /\ ~is_complete(at_start.progress, log[k].d))
            => log[k].first = (IF at_start.progress[log[k].d].exists
                               THEN at_start.progress[log[k].d].last_sample_id + 1
                               ELSE None)

\* write_batch failed after it wrote one sample of a batch with two passed
\* samples
C26_Witness ==
    /\ pc = "failed"
    /\ log # <<>>
    /\ log[Len(log)].op = "write_batch_error"
    /\ Len(log[Len(log)].args) = 1
    /\ Len(log[Len(log) - 1].args) = 2
    /\ shards # <<>>

\* C27 (corrupt payload): when a serialized sample cannot be decoded inside a
\* worker, the worker returns a verdict with passed = false for that sample,
\* the other samples of the batch keep their verdicts, and process_batch
\* returns normally.
C27_UndecodableRejected ==
    UndecodablePlaces # {} =>
        /\ pc # "failed"
        /\ \A e \in Range(finished) :
              e.idx \in UndecodablePlaces => ~e.res.passed
        /\ pc = "add" =>
              /\ Len(results) = Len(batch)
              /\ \A i \in DOMAIN batch :
                    IF i \in UndecodablePlaces
                    THEN ~results[i].passed
                    ELSE /\ results[i].passed =
                               (verdict[<<batch[i].dataset_id, batch[i].sample_id>>] = "pass")
                         /\ results[i] \in { e.res : e \in { x \in Range(finished) : x.idx = i } }

\* the same for the workers of src/workers.py alone
C27_SrcWorkers == gen = "src" => C27_UndecodableRejected

\* with the workers of pipeline/workers.py the exception ends process_batch
C27_PipelineWorkersRaise ==
    (gen = "pipeline" /\ UndecodablePlaces # {}) => pc = "failed"

\* the samples of the batch whose check_and_insert call met a store error:
\* the chain reached the dedup filter, the verdict is a failure, and the
\* table holds no row for the hash
StoreErrorPlaces ==
    { i \in DOMAIN batch :
        /\ reaches_dedup(filters, batch[i])
        /\ i \notin pending
        /\ rows_of(seen_hashes, batch[i].hash) = {} }

\* C28 (dedup store error): when the dedup store fails during
\* check_and_insert, the sample is rejected, the store is left unchanged by
\* the failed call, and the worker continues with the next sample.
C28_StoreErrorRejects ==
    /\ (last_call.valid /\ last_call.err) =>
          /\ ~last_call.ret
          /\ last_call.unchanged
          /\ ~last_call.inserted
          /\ verdict[<<last_call.dataset_id, last_call.sample_id>>] = "fail"
    /\ (/\ last_call.valid
        /\ last_call.err
        /\ last_eval.valid
        /\ batch[last_eval.idx].sample_id = last_call.sample_id) =>
          /\ ~last_eval.passed
          /\ last_eval.unchanged
          /\ last_eval.invoked[Len(last_eval.invoked)] =
                [f |-> "ImageDeduplication", out |-> "false"]
    /\ \A i \in StoreErrorPlaces :
          /\ verdict[<<batch[i].dataset_id, batch[i].sample_id>>] = "fail"
          /\ \A e \in Range(finished) : e.idx = i => ~e.res.passed
    /\ pc \in {"process", "add"}
    /\ pc = "add" =>
          /\ Len(results) = Len(batch)
          /\ \A i \in DOMAIN batch :
                results[i].passed =
                    (verdict[<<batch[i].dataset_id, batch[i].sample_id>>] = "pass")

\* process_batch returned for a batch in which one sample met a store error
\* and a sample processed after it was accepted by the dedup filter
C28_Witness ==
    /\ pc = "add"
    /\ filters = <<"MinResolution", "ImageDeduplication">>
    /\ \E i \in StoreErrorPlaces :
          \E j \in DOMAIN batch :
              /\ results[j].passed
              /\ reaches_dedup(filters, batch[j])
              /\ \E a, b \in DOMAIN finished :
                    a < b /\ finished[a].idx = i /\ finished[b].idx = j


(***************************************************************************)
(* C29, C30: worker initialisation (SpecWorkers).                          *)
(***************************************************************************)
\* building the configured chain raises for some filter
BuildFails == Range(filters) \cap wpool.broken # {}

\* no worker is ready and the process_batch call has produced no verdict
\* and has not returned
NoVerdictFromPool ==
    /\ \A w \in DOMAIN wpool.procs : wpool.procs[w].phase # "ready"
    /\ finished = <<>>
    /\ wpool.evals = {}
    /\ pc = "process"

\* C29: when building the filter chain fails during worker initialisation,
\* no worker enters the ready state and a process_batch call returns no
\* verdicts.
C29_InitFailureSurfaced ==
    (wpool.procs # <<>> /\ BuildFails) => NoVerdictFromPool

\* with _init_worker of src/workers.py a failing factory leaves no ready
\* worker and no verdict
C29_SrcInitializerFatal ==
    (wpool.procs # <<>> /\ gen = "src" /\ BuildFails) => NoVerdictFromPool

\* with _init_worker of pipeline/workers.py every worker is ready whatever
\* the factories do, and the failing construction shows as failed verdicts
C29_PipelineVerdictsFail ==
    (wpool.procs # <<>> /\ gen = "pipeline" /\ BuildFails) =>
        /\ \A w \in DOMAIN wpool.procs : wpool.procs[w].phase \in {"new", "ready"}
        /\ \A k \in DOMAIN finished : ~finished[k].res.passed

\* worker w built every factory of the chain once, in its initializer, and
\* holds the instances it built
BuiltOwnChain(w) ==
    LET p == wpool.procs[w]
    IN /\ DOMAIN p.chain = DOMAIN filters
       /\ \A k \in DOMAIN filters :
            /\ p.built[k] = 1
            /\ p.called[k] = 0
            /\ p.chain[k] = [kind |-> "instance", f |-> filters[k], owner |-> w]

\* no filter instance is held by two workers
NoSharedInstance ==
    \A w1, w2 \in DOMAIN wpool.procs :
        w1 # w2 =>
            { x \in Range(wpool.procs[w1].chain) : x.kind = "instance" }
                \cap Range(wpool.procs[w2].chain) = {}

\* C30: each ready worker has invoked every factory exactly once, at its
\* initialisation; every verdict is computed by applying the built
\* instances; no instance is shared between two workers.
C30_FactoriesBuiltPerWorker ==
    /\ \A w \in DOMAIN wpool.procs :
          wpool.procs[w].phase = "ready" => BuiltOwnChain(w)
    /\ \A e \in wpool.evals : e.by = "instances"
    /\ NoSharedInstance

\* the same for _init_worker of src/workers.py alone
C30_SrcWorkers ==
    gen = "src" =>
        /\ \A w \in DOMAIN wpool.procs :
              wpool.procs[w].phase = "ready" => BuiltOwnChain(w)
        /\ \A e \in wpool.evals : e.by = "instances"
        /\ NoSharedInstance

\* with pipeline/workers.py no factory is invoked by an initializer
C30_PipelineNeverBuilds ==
    gen = "pipeline" =>
        \A w \in DOMAIN wpool.procs :
            \A k \in DOMAIN wpool.procs[w].built : wpool.procs[w].built[k] = 0


(***************************************************************************)
(* C31: cancellation of the driver (SpecCancel).                           *)
(***************************************************************************)
\* the log entry of the cancellation of the current run
Cancelled == { k \in DOMAIN log : log[k].op = "cancel" }
CancelEntry == log[CHOOSE k \in Cancelled : TRUE]

\* the ids of dataset d that are persisted in the manifest, in a shard, or
\* as the resume point of the checkpoint
PersistedIds(d) ==
    { e[2] : e \in Range(DatasetRows(allowlist, d)) }
        \cup { x[2][2] : x \in ShardSamples(shards, d) }
        \cup (IF progress[d].exists THEN {progress[d].last_sample_id} ELSE {})

SuffixAfter(d, j) == SubSeq(emitted(d), j + 2, Len(emitted(d)))

\* the resume point of the last stream call
LastFrom == log[Len(log)].first

\* C32: a resumed stream yields exactly the suffix of the full stream after
\* the sample the resume argument designates, in order, for every resume
\* point and every stream length (for [a, b, c, d] and from_id = b: c, d);
\* without resume argument it yields the full stream.
C32_ResumeSuffix ==
    pc = "streamed" =>
        it = IF LastFrom = None THEN emitted(1) ELSE SuffixAfter(1, LastFrom)

\* what the adapter yields: the full stream without argument, the full
\* stream less its first sample with any from_id
C32_SkipsFirstOnly ==
    pc = "streamed" =>
        it = IF LastFrom = None THEN emitted(1) ELSE Tail(emitted(1))

\* the adapter resumes correctly after the first sample only
C32_ResumeAfterFirst ==
    (pc = "streamed" /\ LastFrom = 0) => it = SuffixAfter(1, 0)


(***************************************************************************)
(* C33: the rows of the dedup store (Spec).                                *)
(***************************************************************************)
\* C33: the dedup store holds at most one row per content hash, and no
\* step changes or removes a row: the (dataset_id, sample_id) recorded for
\* a hash stays the sample whose check_and_insert call inserted it, the
\* first that claimed the hash; a call that finds the hash absent records
\* its own sample.
C33_FirstClaimantKeepsHash ==
    [][ /\ \A h \in Hashes : Cardinality(rows_of(seen_hashes, h)) <= 1
        /\ \A h \in Hashes : Cardinality(rows_of(seen_hashes', h)) <= 1
        /\ seen_hashes \subseteq seen_hashes'
        /\ \A r \in seen_hashes' \ seen_hashes :
              /\ last_call'.valid
              /\ ~last_call'.present
              /\ r = HashRow(last_call'.img_hash, last_call'.dataset_id,
                             last_call'.sample_id) ]_vars

\* a sample found its hash owned by a sample of another batch, was rejected,
\* and the store holds the one row of the first
C33_Witness ==
    /\ last_call.valid
    /\ last_call.present
    /\ ~last_call.ret
    /\ \E r \in seen_hashes :
          /\ r.img_hash = last_call.img_hash
          /\ r.dataset_id = last_call.dataset_id
          /\ r.sample_id \div batch_size # last_call.sample_id \div batch_size
    /\ Cardinality(rows_of(seen_hashes, last_call.img_hash)) = 1


(***************************************************************************)
(* C34: MinResolution on every sample variant (SpecFilter).                *)
(***************************************************************************)
\* the sample carries an image that is narrower or lower than the minimum
BelowMinimum(f, sample) ==
    /\ sample.cls \in {"ImageSample", "ImageTextSample"}
    /\ sample.width < f.min_width \/ sample.height < f.min_height

\* C34: MinResolution(min_width, min_height) rejects every sample carrying
\* an image, of the Image or of the ImageText variant, whose width or
\* height is below the minimum, and accepts every other sample (with
\* MinResolution(64, 64): ImageText (100,100) accepted, (50,50) rejected).
C34_MinResolution ==
    fcall.phase = "returned" =>
        fcall.out = IF BelowMinimum(fcall.filter[1], fcall.sample[1])
                    THEN "false" ELSE "true"

\* filters/resolution.py decides the Image and Text variants as claimed
C34_ImageVariant ==
    (/\ fcall.phase = "returned"
     /\ fcall.filter[1].module = "filters"
     /\ fcall.sample[1].cls # "ImageTextSample") =>
        fcall.out = IF BelowMinimum(fcall.filter[1], fcall.sample[1])
                    THEN "false" ELSE "true"

\* filters/resolution.py accepts every ImageText sample
C34_ImageTextBypasses ==
    (/\ fcall.phase = "returned"
     /\ fcall.filter[1].module = "filters"
     /\ fcall.sample[1].cls = "ImageTextSample") => fcall.out = "true"

\* filter_resolution.py decides the ImageText variant as claimed and raises
\* on the other variants
C34_OldFilter ==
    (fcall.phase = "returned" /\ fcall.filter[1].module = "filter_resolution") =>
        fcall.out = IF fcall.sample[1].cls # "ImageTextSample" THEN "raise"
                    ELSE IF BelowMinimum(fcall.filter[1], fcall.sample[1])
                         THEN "false" ELSE "true"

\* the filter of the driver-level model answers as filters/resolution.py
C34_DriverLevelFilter ==
    (fcall.phase = "returned" /\ fcall.filter[1].module = "filters") =>
        fcall.out = MinResolution(AsKind(fcall.filter[1], fcall.sample[1]))


(***************************************************************************)
(* C35: the shard files of one writer lifetime (SpecSink).                 *)
(***************************************************************************)
\* s is a prefix of t
IsPrefix(s, t) == Len(s) <= Len(t) /\ SubSeq(t, 1, Len(s)) = s

\* the files NNNNNN.tar that exist are those of the indices 0 .. m-1, none
\* is empty, and the next file to be opened is a new one: _shard_idx is the
\* index of the open shard, or m when no shard is open
ConsecutiveShards(sk, sh) ==
    /\ \A k \in DOMAIN sh : Len(sh[k]) >= 1
    /\ sk.shard_idx = IF sk.tar_open THEN Len(sh) - 1 ELSE Len(sh)

OutputPairs(al, sh) ==
    Range(al) \cup UNION { { <<x[1], x[2]>> : x \in Range(sh[k]) } : k \in DOMAIN sh }

\* the samples the run has to do with
KnownSamples == AllSamples \cup Range(batch)

\* pair e belongs to a sample every filter of the chain returns true for:
\* it has the minimum resolution, and if the chain hands it to the dedup
\* store, the store's row of its hash is its own
SoundPair(e, tbl) ==
    \E s \in KnownSamples :
        /\ Key(s) = e
        /\ MinResolution(s) = "true"
        /\ reaches_dedup(filters, s) =>
              HashRow(s.hash, s.dataset_id, s.sample_id) \in tbl

\* every pair of the outputs is sound, and the step added pairs of samples
\* with a passed verdict only
SoundStep ==
    /\ \A e \in OutputPairs(allowlist', shards') : SoundPair(e, seen_hashes')
    /\ \A e \in OutputPairs(allowlist', shards') \ OutputPairs(allowlist, shards) :
          verdict[e] = "pass"

\* C36 (soundness): every pair in the manifest and every sample in a shard
\* belongs to a sample for which every filter of the chain returned true in
\* the evaluation that produced its verdict; a sample with verdict
\* passed = false is never added to the manifest or to a shard.
C36_OutputsSound == [][SoundStep]_vars

\* the same when the workers hold filter instances: built by _init_worker
\* of src/workers.py, or handed to the pool as its signature declares
C36_SoundWithInstances ==
    [][(gen = "src" \/ wpool.procs = <<>>) => SoundStep]_vars

\* with the factories of main.py in pipeline/workers.py, a verdict is
\* passed whenever no construction raises, whatever the sample is
C36_FactoryVerdicts ==
    (gen = "pipeline" /\ wpool.procs # <<>>) =>
        \A k \in DOMAIN finished :
            finished[k].res.passed <=>
                all_factories(filters, wpool.broken, wpool.kwargs).out = "true"


(***************************************************************************)
(* C37: the shards of an earlier run (Spec).                               *)
(***************************************************************************)
\* the pairs of the samples in the shard files sh
ShardPairs(sh) == OutputPairs(<<>>, sh)

\* C37: a resumed run that uses the same output directory never reopens for
\* writing, and so never truncates, a shard file an earlier run wrote: the
\* files that existed when the run started stay as they were; and when the
\* resumed run completes, every sample in the manifest is in some shard.
C37_NoTruncationOnResume ==
    sink_on =>
        /\ \A k \in DOMAIN at_start.shards :
              /\ k <= Len(shards)
              /\ shards[k] = at_start.shards[k]
        /\ pc = "done" => Manifest \subseteq ShardPairs(shards)

\* a first run in an empty output directory ends with every sample of the
\* manifest in a shard
C37_FirstRun ==
    (sink_on /\ runs = 1 /\ pc = "done") => Manifest \subseteq ShardPairs(shards)

\* a run that writes no sample leaves the shard files as they were
C37_NoWriteNoTruncation ==
    (\A k \in DOMAIN log : log[k].op # "write_batch") => shards = at_start.shards


(***************************************************************************)
(* C38: what the driver hands to the manifest and to the sink (Spec).      *)
(***************************************************************************)
\* the submit entry of the batch that the call at place k of the log is for
SubmitOf(k) ==
    log[CHOOSE j \in 1..k : /\ log[j].op = "submit"
                            /\ \A i \in (j + 1)..k : log[i].op # "submit"]

\* C38: in a batch with a passing sample, the samples handed to
\* sink.write_batch are exactly those whose pairs were handed to
\* manifest.add_batch, in the same order; in a batch without a passing
\* sample neither add_batch nor write_batch is called; in both cases
\* checkpoint.update is called with the last sample of the batch.
C38_SinkMatchesManifest ==
    \A k \in DOMAIN log :
        /\ log[k].op = "write_batch" =>
              /\ k > 1
              /\ log[k - 1].op = "add_batch"
              /\ SameBatch(log[k - 1], log[k])
              /\ log[k].args = log[k - 1].args
        /\ log[k].op = "add_batch" =>
              /\ log[k].args # <<>>
              /\ (sink_on /\ k < Len(log)) => log[k + 1].op = "write_batch"
        /\ (log[k].op = "process_batch" /\ log[k].args = <<>> /\ k < Len(log)) =>
              log[k + 1].op = "update"
        /\ log[k].op = "update" =>
              /\ \E j \in 1..k : log[j].op = "submit"
              /\ SameBatch(SubmitOf(k), log[k])
              /\ log[k].args = << SubmitOf(k).args[Len(SubmitOf(k).args)] >>

\* in one run a batch of two samples with one passing sample went to the
\* manifest and to the sink, and a batch without passing sample went
\* straight to the checkpoint
C38_Witness ==
    /\ sink_on
    /\ \E k \in DOMAIN log :
          /\ log[k].op = "write_batch"
          /\ Len(log[k].args) = 1
          /\ Len(SubmitOf(k).args) = 2
    /\ \E k \in DOMAIN log :
          /\ log[k].op = "update"
          /\ log[k - 1].op = "process_batch"
          /\ log[k - 1].args = <<>>


(***************************************************************************)
(* C39: the resume pointer of the checkpoint (Spec).                       *)
(***************************************************************************)
\* the step is a checkpoint.update call of the driver
IsUpdateStep ==
    /\ Len(log') = Len(log) + 1
    /\ log'[Len(log')].op = "update"

\* C39: the resume pointer of a dataset never moves backwards: over batches,
\* crashes and resumed runs, every checkpoint.update of a dataset carries a
\* sample that comes strictly later in the emission order than the sample
\* of the previous update of that dataset, and no other step moves the
\* pointer.
C39_PointerAdvances ==
    [][ /\ \A d \in Datasets :
              progress[d].exists =>
                 /\ progress'[d].exists
                 /\ progress'[d].last_sample_id >= progress[d].last_sample_id
        /\ IsUpdateStep =>
              LET u == log'[Len(log')]
              IN /\ progress'[u.d].last_sample_id = u.args[1][2]
                 /\ progress[u.d].exists =>
                       u.args[1][2] > progress[u.d].last_sample_id
        /\ ~IsUpdateStep =>
              \A d \in Datasets :
                  progress'[d].last_sample_id = progress[d].last_sample_id ]_vars

\* a resumed run moved the pointer a crashed run had left
C39_Witness ==
    /\ runs = 2
    /\ at_start.progress[1].exists
    /\ ~at_start.progress[1].completed
    /\ \E k \in DOMAIN log :
          /\ log[k].op = "update"
          /\ log[k].d = 1
          /\ log[k].args[1][2] > at_start.progress[1].last_sample_id
    /\ progress[1].last_sample_id > at_start.progress[1].last_sample_id


(***************************************************************************)
(* C40: completion of a run that is not interrupted (Spec).                *)
(***************************************************************************)
\* the current run handed no sample to the workers
ProcessedNothing ==
    /\ \A k \in DOMAIN log : log[k].op \notin {"submit", "process_batch", "update"}
    /\ allowlist = at_start.allowlist
    /\ shards = at_start.shards

\* C40: a run of Pipeline.scan that is not interrupted, the first one or one
\* that follows crashes at any points, ends with every configured dataset
\* marked complete in the checkpoint, and a run started after that
\* processes no sample at all.
C40_EventualCompletion ==
    /\ pc = "done" => \A d \in Datasets : is_complete(progress, d)
    /\ (\A d \in Datasets : is_complete(at_start.progress, d)) => ProcessedNothing

\* the part that holds: every dataset whose stream is not empty is marked
\* complete when the run ends
C40_NonEmptyComplete ==
    pc = "done" =>
        \A d \in Datasets : Len(datasets[d]) > 0 => is_complete(progress, d)

\* what the code does for an empty stream: mark_complete finds no row, and
\* the dataset is never reported complete
C40_EmptyNeverComplete ==
    \A d \in Datasets : Len(datasets[d]) = 0 => ~is_complete(progress, d)

\* a run started after a completed one hands no sample to the workers: the
\* datasets with a row are skipped, the empty ones are streamed again and
\* yield nothing
C40_RerunProcessesNothing ==
    (\A d \in Datasets : Len(datasets[d]) > 0 => is_complete(at_start.progress, d))
        => ProcessedNothing

\* a crashed run was followed by a run that ended, and a dataset of the
\* configuration is not marked complete
C40_Reached ==
    /\ pc = "done"
    /\ runs = 2
    /\ at_start.progress[1].exists
    /\ ~at_start.progress[1].completed
    /\ is_complete(progress, 1)
    /\ ~is_complete(progress, 2)


\* the run in hand is not the last one the bound allows, and it is killed
crash_before_last == runs < MaxRuns /\ crash

\* the steps of a running Pipeline.scan, and the start of the next run
RunStep ==
    \/ scan_begin
    \/ scan_dataset
    \/ stream_next
    \/ stream_end
    \/ \E i \in 1..MaxSamples, err \in BOOLEAN : worker(i, err)
    \/ process_batch
    \/ commit_manifest
    \/ commit_sink
    \/ commit_checkpoint
    \/ complete_dataset
    \/ scan_end

NextLive == RunStep \/ crash_before_last

\* the runs of one configuration (both filters, a sink, images of one hash),
\* crashes at any points of the earlier runs, then a run nothing interrupts:
\* the interpreter goes on executing the loop, a worker returns from every
\* sample it was given and a finite stream ends
InitLive ==
    /\ Init
    /\ filters = <<"MinResolution", "ImageDeduplication">>
    /\ sink_on
    /\ \A d \in Datasets : \A i \in DOMAIN datasets[d] :
           /\ datasets[d][i].cls = "ImageSample"
           /\ datasets[d][i].hash = 1
           /\ datasets[d][i].size \in {"ok", "small"}

SpecLive == InitLive /\ [][NextLive]_vars /\ WF_vars(RunStep)

\* termination: the run that is not interrupted ends, with every dataset
\* whose stream is not empty marked complete
C40_Terminates ==
    <>[](/\ pc = "done"
         /\ \A d \in Datasets : Len(datasets[d]) > 0 => is_complete(progress, d))

====
